---- MODULE Spec2Model ----
(***************************************************************************)
(* Model of the Slack Lists MCP server (src/src/slack_lists_server.py):    *)
(* the field codec (create_*_field, extract_field_value), the pagination   *)
(* loops (SlackListsClient.get_all_list_items, the bounded fetch of        *)
(* filter_list_items), the filter predicate of filter_list_items and       *)
(* export_list_items, the JSON and CSV rendering of the export, the client *)
(* (_make_request and its error handling), the two creation tools, the     *)
(* server that runs the five tools one invocation after the other, and the *)
(* Notion webhook of src/main.py (notion_webhook, find_item_by_title,      *)
(* build_cells_from_notion) serving several requests at the same time.     *)
(* SpecFetchLive is the fetch loop of filter_list_items under weak         *)
(* fairness of its steps, for the termination of the loop.                 *)
(*                                                                         *)
(* Python values are tagged records [t, v]:                                *)
(*   none  None            str   a sequence of one-character strings       *)
(*   bool  True / False    int   an integer                                *)
(*   list  a sequence of scalar values                                     *)
(* A JSON object (a field, an item) is a function from its keys to values; *)
(* "key in obj" is membership in its DOMAIN.                               *)
(***************************************************************************)
EXTENDS Integers, Sequences, FiniteSets, TLC

VARIABLES
    pc,                 \* position of the running handler / function
    tool,               \* which handler or function is running
    store,              \* number of items the remote list holds
    max_items,          \* filter_list_items argument (line 482)
    all_items,          \* records accumulated by the fetch loop (lines 509, 124)
    cursor,             \* cursor local of the fetch loop (lines 510, 125)
    requests,           \* list-items requests sent so far: [limit, cursor]
    responses,          \* responses received so far: [items, next_cursor]
    filter_column_id,   \* filter argument (lines 479, 601); "" when absent
    filter_operator,    \* filter argument (lines 481, 603)
    filter_value,       \* filter argument (lines 480, 602)
    filtered_items,     \* filter_list_items: result of the filter loop
    items_to_export,    \* export_list_items: the records selected for export
    result,             \* which return statement the handler left by
    item,               \* extract_field_value argument
    column_id,          \* codec argument
    field_type,         \* "type" of a field definition
    value,              \* "value" of a field definition
    decoded,            \* value returned by extract_field_value
    export_format,      \* export_list_items argument (line 600)
    export_data,        \* JSON branch: the clean_item list (line 667)
    all_columns,        \* CSV branch: the sorted column ids (line 698)
    rows,               \* CSV branch: the row list built for each item (line 709)
    csv_lines,          \* CSV branch (line 701)
    csv_output,         \* CSV branch (line 723)
    client_call,        \* the client method called and its arguments
    http_log,           \* HTTP requests issued by _make_request so far
    raised,             \* the exception a call has left with, if any
    returned,           \* the data a client call has returned, if any
    title,              \* create_list_item argument (line 235)
    additional_fields,  \* create_list_item argument, as json.loads reads it (line 237)
    parent_item_id,     \* create_list_item argument (line 238)
    initial_fields,     \* fields: the field list of the item being created (lines 262, 356)
    fields_added,       \* len(fields) in the success text (line 303)
    items_data,         \* create_multiple_list_items argument, as json.loads reads it
    rate_limit_delay,   \* create_multiple_list_items argument, in tenths of a second
    item_index,         \* i of the loop over the items (line 350)
    successful,         \* line 346
    failed,             \* line 347
    results,            \* line 348
    events,             \* create calls issued and completed, and pauses, in order
    created,            \* payloads the store has accepted
    slack_client,       \* the module's client instance (line 139)
    env_token,          \* the value of SLACK_BOT_TOKEN in the environment
    failed_before,      \* an earlier invocation has returned a failure text
    clients_built,      \* SlackListsClient instances constructed so far (line 152)
    limit_arg,          \* get_list_items argument limit (line 409)
    has_more,           \* get_list_items: has_more (line 465)
    webhook,            \* notion_webhook: the locals of every request being served
    remote_items,       \* the items of the list at the store the webhook syncs to
    store_log           \* the requests of the webhook the store has received, in order

vars == <<pc, tool, store, max_items, all_items, cursor, requests, responses,
          filter_column_id, filter_operator, filter_value, filtered_items,
          items_to_export, result,
          item, column_id, field_type, value, decoded,
          export_format, export_data, all_columns, rows, csv_lines, csv_output,
          client_call, http_log, raised, returned,
          title, additional_fields, parent_item_id, initial_fields, fields_added,
          items_data, rate_limit_delay, item_index, successful, failed, results,
          events, created, slack_client, env_token, failed_before, clients_built,
          limit_arg, has_more, webhook, remote_items, store_log>>

fetchVars == <<store, max_items, all_items, cursor, requests, responses>>
filterVars == <<filter_column_id, filter_operator, filter_value, filtered_items,
                items_to_export, result>>
codecVars == <<item, column_id, field_type, value, decoded>>
exportVars == <<export_format, export_data, all_columns, rows, csv_lines, csv_output>>

(* the variables of the handlers that a specification leaves idle *)
clientVars == <<client_call, http_log, raised, returned>>
createVars == <<title, additional_fields, parent_item_id, initial_fields, fields_added,
                items_data, rate_limit_delay, item_index, successful, failed, results,
                events, created>>
serverVars == <<slack_client, env_token, failed_before, clients_built>>
getVars == <<limit_arg, has_more>>
webVars == <<webhook, remote_items, store_log>>
restVars == <<exportVars, clientVars, createVars, serverVars, getVars, webVars>>

-----------------------------------------------------------------------------
(* Bounds of the model *)

MaxSlots == 2           \* value slots populated in one generated field
MaxFilterItems == 3     \* records in a generated all_items sequence
MaxStore == 3           \* items in a small store
MaxSmallItems == 3      \* largest small max_items argument
MaxPages == 4           \* page requests explored per fetch loop
MaxOver == 1            \* items a store may return beyond the limit
MaxShort == 2           \* largest short page a store returns
MaxExportItems == 2     \* records handed to the export rendering
MaxBulkItems == 2       \* items in an items_data array
MaxFieldDefs == 2       \* field definitions in additional_fields
MaxRequests == 2        \* webhook requests served at the same time

-----------------------------------------------------------------------------
(* Python values *)

PyNone == [t |-> "none", v |-> <<>>]
PyStr(s) == [t |-> "str", v |-> s]
PyBool(b) == [t |-> "bool", v |-> b]
PyInt(n) == [t |-> "int", v |-> n]
PyList(xs) == [t |-> "list", v |-> xs]

Min(a, b) == IF a < b THEN a ELSE b
Max(a, b) == IF a > b THEN a ELSE b

(* bool(x) / "if x:" *)
Truthy(x) ==
    CASE x.t = "none" -> FALSE
      [] x.t = "bool" -> x.v
      [] x.t = "int" -> x.v # 0
      [] x.t = "str" -> Len(x.v) > 0
      [] x.t = "list" -> Len(x.v) > 0

UpperChars == <<"A","B","C","D","E","F","G","H","I","J","K","L","M",
                "N","O","P","Q","R","S","T","U","V","W","X","Y","Z">>
LowerChars == <<"a","b","c","d","e","f","g","h","i","j","k","l","m",
                "n","o","p","q","r","s","t","u","v","w","x","y","z">>

LowerChar(c) ==
    IF \E j \in 1..Len(UpperChars) : UpperChars[j] = c
    THEN LowerChars[CHOOSE j \in 1..Len(UpperChars) : UpperChars[j] = c]
    ELSE c

(* str.lower() *)
lower(s) == [i \in 1..Len(s) |-> LowerChar(s[i])]

Digits == <<"0","1","2","3","4","5","6","7","8","9">>

RECURSIVE NatToStr(_)
NatToStr(n) ==
    IF n < 10 THEN <<Digits[n + 1]>>
    ELSE NatToStr(n \div 10) \o <<Digits[(n % 10) + 1]>>

IntToStr(n) == IF n < 0 THEN <<"-">> \o NatToStr(-n) ELSE NatToStr(n)

(* repr() of a list element *)
repr(x) ==
    CASE x.t = "none" -> <<"N","o","n","e">>
      [] x.t = "bool" -> IF x.v THEN <<"T","r","u","e">> ELSE <<"F","a","l","s","e">>
      [] x.t = "int" -> IntToStr(x.v)
      [] x.t = "str" -> <<"'">> \o x.v \o <<"'">>

RECURSIVE JoinRepr(_)
JoinRepr(xs) ==
    IF xs = <<>> THEN <<>>
    ELSE IF Len(xs) = 1 THEN repr(xs[1])
    ELSE repr(xs[1]) \o <<",", " ">> \o JoinRepr(Tail(xs))

(* str(x) *)
str(x) ==
    CASE x.t = "none" -> <<"N","o","n","e">>
      [] x.t = "bool" -> IF x.v THEN <<"T","r","u","e">> ELSE <<"F","a","l","s","e">>
      [] x.t = "int" -> IntToStr(x.v)
      [] x.t = "str" -> x.v
      [] x.t = "list" -> <<"[">> \o JoinRepr(x.v) \o <<"]">>

(* a in b, for strings *)
IsSubstring(a, b) ==
    \E i \in 0..(Len(b) - Len(a)) : SubSeq(b, i + 1, i + Len(a)) = a

-----------------------------------------------------------------------------
(* Field codec *)

Has(obj, key) == key \in DOMAIN obj

(* dict.get(key) *)
Get(obj, key) == IF Has(obj, key) THEN obj[key] ELSE PyNone

(* seq[0] *)
First(x) == x.v[1]

(* the rich_text block list is kept as a list holding the text: what matters
   to the decoder is that the text sits under "rich_text" *)
create_text_field(col, text) ==
    [column_id |-> col, rich_text |-> PyList(<<text>>)]

create_date_field(col, date) ==
    [column_id |-> col, date |-> PyList(<<date>>)]

create_user_field(col, user_ids) ==
    [column_id |-> col, user |-> user_ids]

create_select_field(col, option_ids) ==
    [column_id |-> col, select |-> option_ids]

create_checkbox_field(col, checked) ==
    [column_id |-> col, checkbox |-> checked]

FieldValue(field) ==
    IF Has(field, "text") THEN field["text"]
    ELSE IF Has(field, "value") THEN field["value"]
    ELSE IF Has(field, "date") /\ Truthy(field["date"]) THEN First(field["date"])
    ELSE IF Has(field, "user") /\ Truthy(field["user"]) THEN field["user"]
    ELSE IF Has(field, "select") /\ Truthy(field["select"]) THEN field["select"]
    ELSE IF Has(field, "checkbox") THEN field["checkbox"]
    ELSE IF Has(field, "number") /\ Truthy(field["number"]) THEN First(field["number"])
    ELSE IF Has(field, "email") /\ Truthy(field["email"]) THEN First(field["email"])
    ELSE IF Has(field, "phone") /\ Truthy(field["phone"]) THEN First(field["phone"])
    ELSE Get(field, "value")

(* mutant: the last field of the column decides, not the first *)
extract_field_value_last(it, col) ==
    LET fields == it.fields
        hits == {i \in 1..Len(fields) : fields[i]["column_id"] = col}
    IN  IF hits = {} THEN PyNone
        ELSE FieldValue(fields[CHOOSE i \in hits : \A j \in hits : i >= j])

extract_field_value(it, col) ==
    LET fields == it.fields
        hits == {i \in 1..Len(fields) : fields[i]["column_id"] = col}
    IN  IF hits = {} THEN PyNone
        ELSE FieldValue(fields[CHOOSE i \in hits : \A j \in hits : i <= j])

(* create_list_item's dispatch on a field definition's type: the fields it
   appends for one definition (none for a type it does not support) *)
EncodeFieldDef(col, type, val) ==
    CASE type = "text" -> <<create_text_field(col, val)>>
      [] type = "date" -> <<create_date_field(col, val)>>
      [] type = "user" ->
            <<create_user_field(col, IF val.t = "list" THEN val ELSE PyList(<<val>>))>>
      [] type = "select" ->
            <<create_select_field(col, IF val.t = "list" THEN val ELSE PyList(<<val>>))>>
      [] type = "checkbox" -> <<create_checkbox_field(col, PyBool(Truthy(val)))>>
      [] OTHER -> <<>>

-----------------------------------------------------------------------------
(* Inputs of the codec *)

sHigh == <<"H","i","g","h">>
sLow == <<"L","o","w">>
sDate == <<"2","0","2","4","-","1","2","-","3","1">>
sU1 == <<"U","1">>
sU2 == <<"U","2">>
sMail == <<"a","@","b">>
sPhone == <<"+","1">>

Columns == {"C1", "C2"}

SlotNames == {"text", "value", "date", "user", "select", "checkbox",
              "number", "email", "phone"}

(* two values per slot; every list-typed slot has an empty variant *)
SlotValue(slot, n) ==
    CASE slot = "text" -> IF n = 1 THEN PyStr(sHigh) ELSE PyStr(<<>>)
      [] slot = "value" -> IF n = 1 THEN PyStr(<<"v">>) ELSE PyInt(42)
      [] slot = "date" -> IF n = 1 THEN PyList(<<PyStr(sDate)>>) ELSE PyList(<<>>)
      [] slot = "user" -> IF n = 1 THEN PyList(<<PyStr(sU1), PyStr(sU2)>>) ELSE PyList(<<>>)
      [] slot = "select" -> IF n = 1 THEN PyList(<<PyStr(sHigh)>>) ELSE PyList(<<>>)
      [] slot = "checkbox" -> IF n = 1 THEN PyBool(TRUE) ELSE PyBool(FALSE)
      [] slot = "number" -> IF n = 1 THEN PyList(<<PyInt(42)>>) ELSE PyList(<<>>)
      [] slot = "email" -> IF n = 1 THEN PyList(<<PyStr(sMail)>>) ELSE PyList(<<>>)
      [] slot = "phone" -> IF n = 1 THEN PyList(<<PyStr(sPhone)>>) ELSE PyList(<<>>)

MakeField(col, slots, pick) ==
    [k \in slots \cup {"column_id"} |->
        IF k = "column_id" THEN col ELSE SlotValue(k, pick[k])]

(* fields of column col with at most MaxSlots populated slots *)
GenFields(col) ==
    UNION { { MakeField(col, slots, pick) : pick \in [slots -> {1, 2}] } :
            slots \in {S \in SUBSET SlotNames : Cardinality(S) <= MaxSlots} }

(* fields that may precede the generated one in a record *)
PrefixFields ==
    { [column_id |-> "C2", text |-> PyStr(sLow)],
      [column_id |-> "C1"],
      [column_id |-> "C1", checkbox |-> PyBool(FALSE)] }

MakeItem(id, fields) == [id |-> id, fields |-> fields]

CodecItems ==
    {MakeItem(1, <<>>)}
    \cup { MakeItem(1, <<f>>) : f \in GenFields("C1") \cup GenFields("C2") }
    \cup { MakeItem(1, <<g, f>>) : g \in PrefixFields,
                                    f \in GenFields("C1") \cup GenFields("C2") }

FieldTypes == {"text", "date", "user", "select", "checkbox", "number", "email", "phone"}

(* the values a field definition of each type may carry *)
TypeValues(type) ==
    CASE type = "text" -> {PyStr(sHigh), PyStr(<<>>)}
      [] type = "date" -> {PyStr(sDate)}
      [] type \in {"user", "select"} ->
            {PyStr(sU1), PyList(<<PyStr(sU1)>>), PyList(<<PyStr(sU1), PyStr(sU2)>>),
             PyList(<<>>)}
      [] type = "checkbox" -> {PyBool(TRUE), PyBool(FALSE)}
      [] type = "number" -> {PyInt(42), PyInt(0)}
      [] type = "email" -> {PyStr(sMail)}
      [] type = "phone" -> {PyStr(sPhone)}

-----------------------------------------------------------------------------
(* Specification of the codec: extract_field_value applied to a record, and
   a field definition encoded as create_list_item encodes it, then decoded *)

IdleFetch ==
    /\ store = 0 /\ max_items = 0 /\ all_items = <<>> /\ cursor = PyNone
    /\ requests = <<>> /\ responses = <<>>

IdleFilter ==
    /\ filter_column_id = "C1" /\ filter_operator = "not_exists"
    /\ filter_value = PyStr(<<"x">>) /\ filtered_items = <<>>
    /\ items_to_export = <<>> /\ result = "running"

IdleCodec ==
    /\ item = MakeItem(1, <<>>) /\ column_id = "C1" /\ field_type = "none"
    /\ value = PyNone /\ decoded = PyNone

IdleExport ==
    /\ export_format = <<>> /\ export_data = <<>> /\ all_columns = <<>>
    /\ rows = <<>> /\ csv_lines = <<>> /\ csv_output = <<>>

NoException == [type |-> "none", msg |-> <<>>]
NoData == [none |-> TRUE]
NoCall == [name |-> "none"]

IdleClient ==
    /\ client_call = NoCall /\ http_log = <<>>
    /\ raised = NoException /\ returned = NoData

NoInput == [kind |-> "none"]

IdleCreate ==
    /\ title = PyNone /\ additional_fields = NoInput /\ parent_item_id = PyNone
    /\ initial_fields = <<>> /\ fields_added = 0
    /\ items_data = NoInput /\ rate_limit_delay = 0 /\ item_index = 0
    /\ successful = 0 /\ failed = 0 /\ results = <<>>
    /\ events = <<>> /\ created = <<>>

sToken == <<"x","o","x","b","-","1">>
sToken2 == <<"x","o","x","b","-","2">>

(* SlackListsClient(token), as far as one instance differs from another *)
SlackListsClient(token) == [token |-> token]

(* slack_client = None *)
NoClient == [none |-> TRUE]

(* the client is built and the token it was built from is in the environment *)
IdleServer ==
    /\ slack_client = SlackListsClient(sToken) /\ env_token = PyStr(sToken)
    /\ failed_before = FALSE /\ clients_built = 1

IdleGet == limit_arg = 0 /\ has_more = FALSE

(* the webhook requests *)
Requests == 1..MaxRequests

(* the locals of notion_webhook before a request has arrived *)
IdleHook ==
    [pc |-> "idle", body |-> NoInput, title |-> PyNone, all_items |-> <<>>,
     cursor |-> PyNone, item |-> PyNone, cells |-> <<>>, fields |-> <<>>,
     response |-> NoData]

IdleWeb ==
    /\ webhook = [p \in Requests |-> IdleHook]
    /\ remote_items = <<>> /\ store_log = <<>>

IdleRest == IdleExport /\ IdleClient /\ IdleCreate /\ IdleServer /\ IdleGet /\ IdleWeb

InitCodec ==
    /\ IdleFetch /\ IdleFilter /\ IdleRest
    /\ decoded = PyNone
    /\ column_id \in Columns
    /\ \/ /\ tool = "extract_field_value"
          /\ pc = "decode"
          /\ item \in CodecItems
          /\ field_type = "none" /\ value = PyNone
       \/ /\ tool = "roundtrip"
          /\ pc = "encode"
          /\ item = MakeItem(1, <<>>)
          /\ field_type \in FieldTypes
          /\ value \in TypeValues(field_type)

(* the record the store holds for an item created with one field definition *)
Encode ==
    /\ pc = "encode"
    /\ item' = MakeItem(1, EncodeFieldDef(column_id, field_type, value))
    /\ pc' = "decode"
    /\ UNCHANGED <<restVars, tool, fetchVars, filterVars, column_id, field_type, value, decoded>>

Decode ==
    /\ pc = "decode"
    /\ decoded' = extract_field_value(item, column_id)
    /\ pc' = "done"
    /\ UNCHANGED <<restVars, tool, fetchVars, filterVars, item, column_id, field_type, value>>

NextCodec == Encode \/ Decode

SpecCodec == InitCodec /\ [][NextCodec]_vars

-----------------------------------------------------------------------------
(* Filter predicate *)

IsNone(x) == x.t = "none"
IsEmptyStr(x) == x.t = "str" /\ x.v = <<>>

(* mutant: exists takes the empty string for a value *)
FilterMatches_ExistsCountsEmpty(op, field_value, fval) ==
    CASE op = "exists" -> ~IsNone(field_value)
      [] op = "not_exists" -> IsNone(field_value) \/ IsEmptyStr(field_value)
      [] op = "equals" -> lower(str(field_value)) = lower(str(fval))
      [] op = "not_equals" -> lower(str(field_value)) # lower(str(fval))
      [] op = "contains" -> 
            ~IsNone(field_value) /\ IsSubstring(lower(str(fval)), lower(str(field_value)))
      [] op = "not_contains" -> 
            IsNone(field_value) \/ ~IsSubstring(lower(str(fval)), lower(str(field_value)))
      [] OTHER -> FALSE

(* mutant: not_contains has no branch for a null value *)
FilterMatches_NotContainsNoNull(op, field_value, fval) ==
    CASE op = "exists" -> ~IsNone(field_value) /\ ~IsEmptyStr(field_value)
      [] op = "not_exists" -> IsNone(field_value) \/ IsEmptyStr(field_value)
      [] op = "equals" -> lower(str(field_value)) = lower(str(fval))
      [] op = "not_equals" -> lower(str(field_value)) # lower(str(fval))
      [] op = "contains" -> 
            ~IsNone(field_value) /\ IsSubstring(lower(str(fval)), lower(str(field_value)))
      [] op = "not_contains" -> 
            ~IsSubstring(lower(str(fval)), lower(str(field_value)))
      [] OTHER -> FALSE

(* mutant: equals compares the string forms as they are *)
FilterMatches_EqualsCaseSensitive(op, field_value, fval) ==
    CASE op = "exists" -> ~IsNone(field_value) /\ ~IsEmptyStr(field_value)
      [] op = "not_exists" -> IsNone(field_value) \/ IsEmptyStr(field_value)
      [] op = "equals" -> str(field_value) = str(fval)
      [] op = "not_equals" -> lower(str(field_value)) # lower(str(fval))
      [] op = "contains" -> 
            ~IsNone(field_value) /\ IsSubstring(lower(str(fval)), lower(str(field_value)))
      [] op = "not_contains" -> 
            IsNone(field_value) \/ ~IsSubstring(lower(str(fval)), lower(str(field_value)))
      [] OTHER -> FALSE

(* filter_list_items: "matches" for one record's decoded field value *)
FilterMatches(op, field_value, fval) ==
    CASE op = "exists" -> ~IsNone(field_value) /\ ~IsEmptyStr(field_value)
      [] op = "not_exists" -> IsNone(field_value) \/ IsEmptyStr(field_value)
      [] op = "equals" -> lower(str(field_value)) = lower(str(fval))
      [] op = "not_equals" -> lower(str(field_value)) # lower(str(fval))
      [] op = "contains" ->
            ~IsNone(field_value) /\ IsSubstring(lower(str(fval)), lower(str(field_value)))
      [] op = "not_contains" ->
            IsNone(field_value) \/ ~IsSubstring(lower(str(fval)), lower(str(field_value)))
      [] OTHER -> FALSE

(* export_list_items: its own copy of the same dispatch *)
ExportMatches(op, field_value, fval) ==
    CASE op = "exists" -> ~IsNone(field_value) /\ ~IsEmptyStr(field_value)
      [] op = "not_exists" -> IsNone(field_value) \/ IsEmptyStr(field_value)
      [] op = "equals" -> lower(str(field_value)) = lower(str(fval))
      [] op = "not_equals" -> lower(str(field_value)) # lower(str(fval))
      [] op = "contains" ->
            ~IsNone(field_value) /\ IsSubstring(lower(str(fval)), lower(str(field_value)))
      [] op = "not_contains" ->
            IsNone(field_value) \/ ~IsSubstring(lower(str(fval)), lower(str(field_value)))
      [] OTHER -> FALSE

(* mutant: each match is put in front of the matches found before it *)
Select_Prepending(kind, items, col, op, fval) ==
    LET matches(it) ==
            IF kind = "export"
            THEN ExportMatches(op, extract_field_value(it, col), fval)
            ELSE FilterMatches(op, extract_field_value(it, col), fval)
        found == SelectSeq(items, matches)
    IN  [k \in 1..Len(found) |-> found[Len(found) + 1 - k]]

(* the loop over all_items: the records that match, in their order *)
Select(kind, items, col, op, fval) ==
    LET matches(it) ==
            IF kind = "export"
            THEN ExportMatches(op, extract_field_value(it, col), fval)
            ELSE FilterMatches(op, extract_field_value(it, col), fval)
    IN  SelectSeq(items, matches)

(* filter_list_items: the loop over all_items *)
FilterSelect(items, col, op, fval) == Select("filter", items, col, op, fval)

(* export_list_items: items_to_export; the filter runs only when both the
   column and the value are truthy.  An absent (None) column is "" here. *)
ExportSelect(items, col, op, fval) ==
    IF col # "" /\ Truthy(fval) THEN Select("export", items, col, op, fval)
    ELSE items

-----------------------------------------------------------------------------
(* Inputs of the filter *)

Operators == {"contains", "equals", "not_equals", "not_contains", "exists", "not_exists"}

s42 == <<"4","2">>
sNoneLower == <<"n","o","n","e">>

(* the field lists of the generated records *)
FilterFieldLists ==
    { <<>>,
      <<[column_id |-> "C1", select |-> PyList(<<PyStr(sHigh)>>)]>>,
      <<[column_id |-> "C1", select |-> PyList(<<PyStr(sLow)>>)]>>,
      <<[column_id |-> "C1", text |-> PyStr(sHigh)]>>,
      <<[column_id |-> "C1", text |-> PyStr(<<>>)]>>,
      <<[column_id |-> "C1", number |-> PyList(<<PyInt(42)>>)]>>,
      <<[column_id |-> "C1", user |-> PyList(<<>>)]>>,
      <<[column_id |-> "C2", text |-> PyStr(sLow)],
        [column_id |-> "C1", checkbox |-> PyBool(FALSE)]>> }

(* record sequences as a store returns them: ids distinct, in order *)
FilterItemSeqs ==
    UNION { { [i \in 1..n |-> MakeItem(i, fs[i])] : fs \in [1..n -> FilterFieldLists] } :
            n \in 0..MaxFilterItems }

FilterValues ==
    { PyStr(<<"h","i","g","h">>), PyStr(s42), PyStr(sNoneLower),
      PyStr(<<"I","G">>), PyStr(<<>>) }

-----------------------------------------------------------------------------
(* Specification of the filter stage: filter_list_items and export_list_items
   from the point where their fetch has returned all_items *)

InitFilter ==
    /\ IdleRest
    /\ store = 0 /\ max_items = 0 /\ cursor = PyNone
    /\ requests = <<>> /\ responses = <<>>
    /\ item = MakeItem(1, <<>>) /\ column_id = "C1" /\ field_type = "none"
    /\ value = PyNone /\ decoded = PyNone
    /\ pc = "filter"
    /\ filtered_items = <<>> /\ items_to_export = <<>> /\ result = "running"
    /\ all_items \in FilterItemSeqs
    /\ filter_operator \in Operators \cup {"starts_with"}
    /\ \/ /\ tool = "filter_list_items"
          /\ filter_column_id \in Columns
          /\ filter_value \in FilterValues
       \/ /\ tool = "export_list_items"
          /\ filter_column_id \in Columns \cup {""}
          /\ filter_value \in FilterValues \cup {PyNone}

(* filter_list_items, from "if not all_items" to the return *)
FilterApply ==
    /\ pc = "filter" /\ tool = "filter_list_items"
    /\ IF all_items = <<>>
       THEN /\ result' = "no_items"
            /\ UNCHANGED filtered_items
       ELSE /\ filtered_items' =
                   FilterSelect(all_items, filter_column_id, filter_operator, filter_value)
            /\ result' = IF filtered_items' = <<>> THEN "no_match" ELSE "filtered"
    /\ pc' = "done"
    /\ UNCHANGED <<restVars, tool, fetchVars, filter_column_id, filter_operator, filter_value,
                   items_to_export, codecVars>>

(* export_list_items, from "if not all_items" to the choice of the format *)
ExportApply ==
    /\ pc = "filter" /\ tool = "export_list_items"
    /\ IF all_items = <<>>
       THEN /\ result' = "no_items"
            /\ UNCHANGED items_to_export
       ELSE /\ items_to_export' =
                   ExportSelect(all_items, filter_column_id, filter_operator, filter_value)
            /\ result' = IF items_to_export' = <<>> THEN "no_match" ELSE "exported"
    /\ pc' = IF result' = "exported" THEN "render" ELSE "done"
    /\ UNCHANGED <<restVars, tool, fetchVars, filter_column_id, filter_operator, filter_value,
                   filtered_items, codecVars>>

NextFilter == FilterApply \/ ExportApply

SpecFilter == InitFilter /\ [][NextFilter]_vars

-----------------------------------------------------------------------------
(* Properties of the codec (checked under SpecCodec) *)

(* the field extract_field_value reads: the first one of the column *)
FirstFieldOf(it, col) ==
    CHOOSE i \in 1..Len(it.fields) :
        /\ it.fields[i]["column_id"] = col
        /\ \A j \in 1..(i - 1) : it.fields[j]["column_id"] # col

HasFieldOf(it, col) == \E i \in 1..Len(it.fields) : it.fields[i]["column_id"] = col

SlotPriority == <<"text", "value", "date", "user", "select", "checkbox",
                  "number", "email", "phone">>
ListSlots == {"date", "user", "select", "number", "email", "phone"}
FirstElementSlots == {"date", "number", "email", "phone"}

SlotResult(field, slot) ==
    IF slot \in FirstElementSlots
    THEN IF Len(field[slot].v) > 0 THEN field[slot].v[1] ELSE PyNone
    ELSE field[slot]

(* the value of the first slot of SlotPriority that is in present *)
ByPriority(field, present) ==
    IF present = {} THEN Get(field, "value")
    ELSE LET i == CHOOSE i \in 1..Len(SlotPriority) :
                      /\ SlotPriority[i] \in present
                      /\ \A j \in 1..(i - 1) : SlotPriority[j] \notin present
         IN  SlotResult(field, SlotPriority[i])

KeysPresent(field) == {k \in SlotNames : Has(field, k)}
NonEmptyPresent(field) ==
    {k \in SlotNames : Has(field, k) /\ (k \in ListSlots => Len(field[k].v) > 0)}

Decoded == pc = "done" /\ tool = "extract_field_value"

(* C5: a field definition of any supported type, encoded by the type's encoder
   and decoded for its column, gives back the value (a bare user/select scalar
   as a one-element list). *)
C5_Normalised ==
    IF field_type \in {"user", "select"} /\ value.t # "list"
    THEN PyList(<<value>>) ELSE value

C5_RoundTrip ==
    (pc = "done" /\ tool = "roundtrip") => decoded = C5_Normalised

(* C6 as stated: the first field of the column decides; the first slot whose
   key is present, in priority order, is returned; null when the record has no
   field of the column. *)
C6_FirstPresentSlot ==
    Decoded =>
        decoded = IF HasFieldOf(item, column_id)
                  THEN LET f == item.fields[FirstFieldOf(item, column_id)]
                       IN  ByPriority(f, KeysPresent(f))
                  ELSE PyNone

(* C6 amended: as C6, where a list-typed slot (date, user, select, number,
   email, phone) counts as present only when its list is not empty. *)
C6_FirstNonEmptySlot ==
    Decoded =>
        decoded = IF HasFieldOf(item, column_id)
                  THEN LET f == item.fields[FirstFieldOf(item, column_id)]
                       IN  ByPriority(f, NonEmptyPresent(f))
                  ELSE PyNone

(* an empty date list is passed over and the checkbox of the same field read *)
C6_Witness ==
    /\ Decoded
    /\ Len(item.fields) = 2
    /\ item.fields[1]["column_id"] # column_id
    /\ item.fields[2]["column_id"] = column_id
    /\ DOMAIN item.fields[2] = {"column_id", "date", "checkbox"}
    /\ item.fields[2]["date"] = PyList(<<>>)
    /\ decoded = PyBool(TRUE)

-----------------------------------------------------------------------------
(* Properties of the filter (checked under SpecFilter) *)

InSeq(x, seq) == \E i \in 1..Len(seq) : seq[i] = x

(* the records the finished handler selected *)
Selected == IF tool = "filter_list_items" THEN filtered_items ELSE items_to_export

(* the records the same handler selects for another operator or value *)
SelectedFor(op, fval) ==
    IF tool = "filter_list_items"
    THEN FilterSelect(all_items, filter_column_id, op, fval)
    ELSE ExportSelect(all_items, filter_column_id, op, fval)

(* the handler finished and its filter loop ran over a non-empty all_items *)
FilterRan ==
    /\ pc \in {"done", "render"} /\ all_items # <<>>
    /\ \/ tool = "filter_list_items"
       \/ tool = "export_list_items" /\ filter_column_id # "" /\ Truthy(filter_value)

DecodedAt(i) == extract_field_value(all_items[i], filter_column_id)

(* two strings equal up to the case of their letters *)
EqualFold(a, b) ==
    /\ Len(a) = Len(b)
    /\ \A i \in 1..Len(a) : LowerChar(a[i]) = LowerChar(b[i])

C4_Records ==
    << MakeItem(1, <<[column_id |-> "C1", select |-> PyList(<<PyStr(sHigh)>>)]>>),
       MakeItem(2, <<[column_id |-> "C1", select |-> PyList(<<PyStr(sLow)>>)]>>) >>

(* C4: over the records {1: C1 select ["High"]}, {2: C1 select ["Low"]} the
   criterion C1 equals "high" matches exactly the record with id 1. *)
C4_EqualsMatchesSelectList ==
    ( /\ pc = "done" /\ tool = "filter_list_items"
      /\ all_items = C4_Records
      /\ filter_column_id = "C1" /\ filter_operator = "equals"
      /\ filter_value = PyStr(<<"h","i","g","h">>) )
    => filtered_items = <<C4_Records[1]>>

(* C7: exists and not_exists split the records: each record is selected by
   exactly one of the two, by exists iff its decoded value is neither null nor
   the empty string. *)
C7_ExistsPartition ==
    (FilterRan /\ filter_operator \in {"exists", "not_exists"}) =>
        LET other == IF filter_operator = "exists" THEN "not_exists" ELSE "exists"
            otherSel == SelectedFor(other, filter_value)
            existsSel == IF filter_operator = "exists" THEN Selected ELSE otherSel
        IN  \A i \in 1..Len(all_items) :
                /\ InSeq(all_items[i], Selected) <=> ~InSeq(all_items[i], otherSel)
                /\ InSeq(all_items[i], existsSel) <=>
                      (DecodedAt(i) # PyNone /\ DecodedAt(i) # PyStr(<<>>))

(* a record with an empty text and one without the column, both not_exists *)
C7_Witness ==
    /\ FilterRan /\ filter_operator = "not_exists" /\ tool = "export_list_items"
    /\ Len(all_items) = 2 /\ Selected = all_items
    /\ DecodedAt(1) = PyStr(<<>>) /\ DecodedAt(2) = PyNone

(* C8: a record that contains does not select is selected by not_contains,
   also when its decoded value is null (contains false, not_contains true). *)
C8_NotContainsCoversContains ==
    (FilterRan /\ filter_operator \in {"contains", "not_contains"}) =>
        LET other == IF filter_operator = "contains" THEN "not_contains" ELSE "contains"
            otherSel == SelectedFor(other, filter_value)
            containsSel == IF filter_operator = "contains" THEN Selected ELSE otherSel
            notContainsSel == IF filter_operator = "contains" THEN otherSel ELSE Selected
        IN  \A i \in 1..Len(all_items) :
                /\ ~InSeq(all_items[i], containsSel) => InSeq(all_items[i], notContainsSel)
                /\ DecodedAt(i) = PyNone =>
                      /\ ~InSeq(all_items[i], containsSel)
                      /\ InSeq(all_items[i], notContainsSel)

(* a null value and the comparison value "none": not_contains selects it *)
C8_Witness ==
    /\ FilterRan /\ filter_operator = "not_contains" /\ tool = "filter_list_items"
    /\ filter_value = PyStr(sNoneLower)
    /\ Len(all_items) = 1 /\ DecodedAt(1) = PyNone
    /\ filtered_items = all_items

(* C9: equals selects a record iff the string forms of its decoded value and
   of the comparison value are equal up to case (42 equals "42"); not_equals
   selects exactly the records equals does not. *)
C9_EqualsIgnoresCase ==
    (FilterRan /\ filter_operator \in {"equals", "not_equals"}) =>
        \A i \in 1..Len(all_items) :
            LET same == EqualFold(str(DecodedAt(i)), str(filter_value))
            IN  /\ InSeq(all_items[i], Selected) <=>
                      (IF filter_operator = "equals" THEN same ELSE ~same)
                /\ InSeq(all_items[i], SelectedFor("equals", filter_value)) <=>
                      ~InSeq(all_items[i], SelectedFor("not_equals", filter_value))

(* the decoded number 42 against "42", and a text "High" against "high" *)
C9_Witness ==
    /\ FilterRan /\ filter_operator = "equals"
    /\ Len(all_items) = 2
    /\ DecodedAt(1) = PyInt(42) /\ DecodedAt(2) = PyStr(sHigh)
    /\ filter_value = PyStr(s42)
    /\ Selected = <<all_items[1]>>

(* C10: with a filter column and operator exists or not_exists the selected
   records are the same for every filter_value, empty and absent included. *)
C10_ValueUnusedForExists ==
    ( /\ pc \in {"done", "render"} /\ all_items # <<>> /\ filter_column_id # ""
      /\ filter_operator \in {"exists", "not_exists"} )
    => \A fval \in FilterValues \cup {PyNone} :
           SelectedFor(filter_operator, fval) = Selected

(* the record at position i of all_items matches the handler's criterion *)
MatchesAt(i) ==
    IF tool = "filter_list_items"
    THEN FilterMatches(filter_operator, DecodedAt(i), filter_value)
    ELSE ExportMatches(filter_operator, DecodedAt(i), filter_value)

(* the k-th smallest member of a set of positions *)
KthOf(positions, k) ==
    CHOOSE i \in positions : Cardinality({j \in positions : j <= i}) = k

(* C11: the filtered result is a subsequence of the fetched records: every
   matching record once, no other record, in the order of the fetch. *)
C11_FilteredIsSubsequence ==
    FilterRan =>
        LET hits == {i \in 1..Len(all_items) : MatchesAt(i)}
        IN  /\ Len(Selected) = Cardinality(hits)
            /\ \A k \in 1..Len(Selected) : Selected[k] = all_items[KthOf(hits, k)]

(* the first and the third of three records match, the second does not *)
C11_Witness ==
    /\ FilterRan /\ Len(all_items) = 3
    /\ MatchesAt(1) /\ ~MatchesAt(2) /\ MatchesAt(3)
    /\ Selected = <<all_items[1], all_items[3]>>


-----------------------------------------------------------------------------
(* The remote list and the pagination loops *)

PageLimit == 100

(* the store's opaque cursor for "continue after the first pos items" *)
Token(pos) == PyStr(<<"c">> \o NatToStr(pos))

StoreItem(i) == MakeItem(i, <<>>)

(* the first n items of the list, in store order *)
StorePrefix(n) == [i \in 1..n |-> StoreItem(i)]

(* SlackListsClient.get_list_items: the request parameters; the cursor is
   sent only when it is truthy *)
ClientRequest(limit, cur) ==
    [limit |-> limit, cursor |-> IF Truthy(cur) THEN cur ELSE PyNone]

(* where the store starts a page: at the cursor's position, else at the top *)
StartOf(req) ==
    IF req.cursor = PyNone THEN 0
    ELSE CHOOSE pos \in 0..store : Token(pos) = req.cursor

(* The page sizes a store may answer with when remaining items are left: a
   short page of up to MaxShort items, the page as asked for, or up to MaxOver
   items more than the limit *)
PageSizes(limit, remaining) ==
    {n \in 0..Min(Max(limit, 0) + MaxOver, remaining) :
        n <= MaxShort \/ n >= Min(limit, remaining)}

(* The next_cursor a store may answer with after position pos: a token for
   that position, none (absent) or the empty string *)
NextCursors(pos) == {Token(pos), PyNone, PyStr(<<>>)}

(* the responses the store may give to a request *)
StoreResponses(req) ==
    LET start == StartOf(req)
    IN  UNION { { [items |-> [j \in 1..n |-> StoreItem(start + j)],
                   next_cursor |-> next] : next \in NextCursors(start + n) } :
                n \in PageSizes(req.limit, store - start) }

(* mutant: every page is asked for with the full page limit *)
BatchSize_Uncapped(max, have) == PageLimit

(* filter_list_items: batch_size of the next page request *)
BatchSize(max, have) == Min(PageLimit, max - have)

(* mutant: an empty page with a cursor does not end the loop *)
FilterContinues_PastEmptyPage(next, items, have, max) ==
    /\ Truthy(next)
    /\ have < max

(* filter_list_items: the loop goes on after a page (no break, and the loop
   condition holds) *)
FilterContinues(next, items, have, max) ==
    /\ ~(~Truthy(next) \/ items = <<>>)
    /\ have < max

(* mutant: an empty page ends the listing, as in the bounded fetch *)
GetAllContinues_UntilEmptyPage(next, items) == Truthy(next) /\ items # <<>>

(* get_all_list_items: the loop goes on after a page *)
GetAllContinues(next, items) == Truthy(next)

StoreSizes == 0..MaxStore \cup {237, 300}
MaxItemsArgs == (-1)..MaxSmallItems \cup {250}

Init ==
    /\ IdleFilter /\ IdleRest
    /\ item = MakeItem(1, <<>>) /\ column_id = "C1" /\ field_type = "none"
    /\ value = PyNone /\ decoded = PyNone
    /\ pc = "fetch"
    /\ all_items = <<>> /\ cursor = PyNone
    /\ requests = <<>> /\ responses = <<>>
    /\ store \in StoreSizes
    /\ \/ tool = "filter_list_items" /\ max_items \in MaxItemsArgs
       \/ tool = "export_list_items" /\ max_items = 0

(* filter_list_items: the loop condition fails, all_items goes to the filter *)
FilterFetchDone ==
    /\ pc = "fetch" /\ tool = "filter_list_items"
    /\ ~(Len(all_items) < max_items)
    /\ pc' = "filter"
    /\ UNCHANGED <<restVars, tool, fetchVars, filterVars, codecVars>>

(* filter_list_items: one iteration of the bounded fetch *)
FilterFetchPage ==
    /\ pc = "fetch" /\ tool = "filter_list_items"
    /\ Len(all_items) < max_items
    /\ Len(requests) < MaxPages
    /\ LET req == ClientRequest(BatchSize(max_items, Len(all_items)), cursor)
       IN  \E data \in StoreResponses(req) :
              /\ requests' = Append(requests, req)
              /\ responses' = Append(responses, data)
              /\ all_items' = all_items \o data.items
              /\ cursor' = data.next_cursor
              /\ pc' = IF FilterContinues(data.next_cursor, data.items,
                                          Len(all_items'), max_items)
                       THEN "fetch" ELSE "filter"
    /\ UNCHANGED <<restVars, tool, store, max_items, filterVars, codecVars>>

(* export_list_items: one iteration of client.get_all_list_items *)
GetAllPage ==
    /\ pc = "fetch" /\ tool = "export_list_items"
    /\ Len(requests) < MaxPages
    /\ LET req == ClientRequest(PageLimit, cursor)
       IN  \E data \in StoreResponses(req) :
              /\ requests' = Append(requests, req)
              /\ responses' = Append(responses, data)
              /\ all_items' = all_items \o data.items
              /\ cursor' = data.next_cursor
              /\ pc' = IF GetAllContinues(data.next_cursor, data.items)
                       THEN "fetch" ELSE "filter"
    /\ UNCHANGED <<restVars, tool, store, max_items, filterVars, codecVars>>

(* the handlers from their first page request to the end of their filter
   stage, over a list of records without fields *)
Next == FilterFetchDone \/ FilterFetchPage \/ GetAllPage \/ FilterApply \/ ExportApply

Spec == Init /\ [][Next]_vars

-----------------------------------------------------------------------------
(* Properties of the pagination loops (checked under Spec) *)

RECURSIVE Concat(_)
Concat(pages) == IF pages = <<>> THEN <<>> ELSE Head(pages).items \o Concat(Tail(pages))

(* the store position before the i-th request and after its response *)
StartAt(i) == StartOf(requests[i])
EndAt(i) == StartAt(i) + Len(responses[i].items)

(* the fetch of filter_list_items has ended: all_items goes to the filter *)
HandedToFilter == pc \in {"filter", "done"} /\ tool = "filter_list_items"

(* every page holds at most the number of items asked for *)
HonoursLimit ==
    \A i \in 1..Len(responses) : Len(responses[i].items) <= requests[i].limit

(* the store gives a cursor exactly while items are left after the page *)
CursorWhileMore ==
    \A i \in 1..Len(responses) :
        Truthy(responses[i].next_cursor) <=> (EndAt(i) < store)

(* while items are left, a page is not empty *)
NoEmptyPage ==
    \A i \in 1..Len(responses) :
        StartAt(i) < store => Len(responses[i].items) >= 1

(* C1: whatever the store answers, also pages larger than asked for, at most
   max_items records are handed to the filter. *)
C1_NeverMoreThanMaxItems ==
    HandedToFilter => Len(all_items) <= Max(max_items, 0)

(* C2 as stated: from a store that honours the page limit the filter gets
   exactly the first min(max_items, items in the store) records. *)
C2_ExactlyMinOfMaxAndAvailable ==
    (HandedToFilter /\ HonoursLimit /\ CursorWhileMore) =>
        all_items = StorePrefix(Max(Min(max_items, store), 0))

(* C2 amended: the same, from a store that also returns no empty page while
   items are left (an empty page ends the fetch, with or without a cursor). *)
C2_ExactlyMinUnlessEmptyPage ==
    (HandedToFilter /\ HonoursLimit /\ CursorWhileMore /\ NoEmptyPage) =>
        all_items = StorePrefix(Max(Min(max_items, store), 0))

(* pages of 100, 100 and 37 items, no cursor after the third: 237 records *)
C2_Witness ==
    /\ HandedToFilter /\ HonoursLimit /\ CursorWhileMore /\ NoEmptyPage
    /\ max_items = 250 /\ store = 237
    /\ Len(responses) = 3
    /\ Len(responses[1].items) = 100 /\ Len(responses[2].items) = 100
    /\ Len(responses[3].items) = 37
    /\ responses[3].next_cursor = PyNone
    /\ Len(all_items) = 237

(* C3: get_all_list_items sends its first request without a cursor and each
   later one with the cursor of the response before it; it goes on exactly
   while the last response carried a non-empty cursor, whether or not the page
   held items; all_items is the pages' items in page order. *)
C3_FollowsCursorUntilEmpty ==
    tool = "export_list_items" =>
        /\ Len(requests) = Len(responses)
        /\ all_items = Concat(responses)
        /\ \A i \in 1..Len(requests) :
              requests[i].cursor = IF i = 1 THEN PyNone ELSE responses[i - 1].next_cursor
        /\ \A i \in 1..(Len(responses) - 1) : Truthy(responses[i].next_cursor)
        /\ (pc # "fetch") <=>
              (responses # <<>> /\ ~Truthy(responses[Len(responses)].next_cursor))

(* an empty page with a cursor is followed; a page with items and an empty
   cursor ends the listing *)
C3_Witness ==
    /\ tool = "export_list_items" /\ pc # "fetch"
    /\ Len(responses) = 3
    /\ responses[1].items # <<>>
    /\ responses[2].items = <<>> /\ Truthy(responses[2].next_cursor)
    /\ responses[3].items # <<>> /\ responses[3].next_cursor = PyStr(<<>>)
    /\ Len(all_items) = Len(responses[1].items) + Len(responses[3].items)

-----------------------------------------------------------------------------
(* Export rendering: export_list_items from the choice of the format on *)

sJson == <<"j","s","o","n">>
sCsv == <<"c","s","v">>
sItemId == <<"i","t","e","m","_","i","d">>
sCreatedDate == <<"c","r","e","a","t","e","d","_","d","a","t","e">>
sCreatedBy == <<"c","r","e","a","t","e","d","_","b","y">>
sTwoLines == <<"a","\n","b">>

ExportColumns == {"C1", "C10", "C2"}

(* the characters of a column id *)
ColumnChars(col) ==
    CASE col = "C1" -> <<"C","1">>
      [] col = "C10" -> <<"C","1","0">>
      [] col = "C2" -> <<"C","2">>

(* ord(c) for digits and letters *)
Ord(c) ==
    IF \E j \in 1..Len(Digits) : Digits[j] = c
    THEN 47 + (CHOOSE j \in 1..Len(Digits) : Digits[j] = c)
    ELSE IF \E j \in 1..Len(UpperChars) : UpperChars[j] = c
    THEN 64 + (CHOOSE j \in 1..Len(UpperChars) : UpperChars[j] = c)
    ELSE 96 + (CHOOSE j \in 1..Len(LowerChars) : LowerChars[j] = c)

(* a < b for strings: by code point, a proper prefix first *)
StrLess(a, b) ==
    \/ Len(a) < Len(b) /\ SubSeq(b, 1, Len(a)) = a
    \/ \E k \in 1..Min(Len(a), Len(b)) :
          /\ SubSeq(a, 1, k - 1) = SubSeq(b, 1, k - 1)
          /\ Ord(a[k]) < Ord(b[k])

(* mutant: shorter ids first, the order of the numbers in the ids *)
RECURSIVE sorted_ShortFirst(_)
sorted_ShortFirst(S) ==
    IF S = {} THEN <<>>
    ELSE LET before(x, y) ==
                 \/ Len(ColumnChars(x)) < Len(ColumnChars(y))
                 \/ /\ Len(ColumnChars(x)) = Len(ColumnChars(y))
                    /\ StrLess(ColumnChars(x), ColumnChars(y))
             m == CHOOSE x \in S : \A y \in S \ {x} : before(x, y)
         IN  <<m>> \o sorted_ShortFirst(S \ {m})

(* sorted(list(all_columns)) *)
RECURSIVE sorted(_)
sorted(S) ==
    IF S = {} THEN <<>>
    ELSE LET m == CHOOSE x \in S :
                      \A y \in S \ {x} : StrLess(ColumnChars(x), ColumnChars(y))
         IN  <<m>> \o sorted(S \ {m})

(* sep.join(parts) *)
RECURSIVE Join(_, _)
Join(sep, parts) ==
    IF parts = <<>> THEN <<>>
    ELSE IF Len(parts) = 1 THEN parts[1]
    ELSE parts[1] \o sep \o Join(sep, Tail(parts))

(* f'"{s}"' *)
Quote(s) == <<"\"">> \o s \o <<"\"">>

(* datetime.fromtimestamp(ts).isoformat(), for midnights of the first days
   of the epoch, in UTC *)
IsoFormat(ts) ==
    <<"1","9","7","0","-","0","1","-","0">> \o NatToStr(1 + (ts \div 86400))
        \o <<"T","0","0",":","0","0",":","0","0">>

DateCreated(it) == IF Has(it, "date_created") THEN it["date_created"] ELSE 0

(* the column ids of the fields of the records *)
ColumnsOf(items) ==
    UNION { { items[i].fields[j].column_id : j \in 1..Len(items[i].fields) } :
            i \in 1..Len(items) }

(* the CSV cell of a record in a column (lines 716-719) *)
CsvCell(it, col) ==
    LET val == extract_field_value(it, col)
        flat == IF val.t = "list"
                THEN PyStr(Join(<<",", " ">>, [k \in 1..Len(val.v) |-> str(val.v[k])]))
                ELSE val
    IN  Quote(IF flat.t # "none" THEN str(flat) ELSE <<>>)

(* the row list of a record (lines 709-719) *)
CsvRow(it, cols) ==
    << Quote(str(PyInt(it.id))),
       Quote(IsoFormat(DateCreated(it))),
       Quote(IF Has(it, "created_by") THEN str(it["created_by"]) ELSE <<>>) >>
    \o [k \in 1..Len(cols) |-> CsvCell(it, cols[k])]

(* the header line (lines 704-705) *)
CsvHeader(cols) ==
    LET headers == <<sItemId, sCreatedDate, sCreatedBy>>
                   \o [k \in 1..Len(cols) |-> ColumnChars(cols[k])]
    IN  Join(<<",">>, [k \in 1..Len(headers) |-> Quote(headers[k])])

(* mutant: list values are put into the fields map as their joined text *)
CleanItem_Flattened(it) ==
    [ id |-> it.id,
      list_id |-> Get(it, "list_id"),
      created_date |-> IsoFormat(DateCreated(it)),
      created_by |-> Get(it, "created_by"),
      fields |-> [c \in ColumnsOf(<<it>>) |->
                    LET val == extract_field_value(it, c)
                    IN  IF val.t = "list"
                        THEN PyStr(Join(<<",", " ">>,
                                        [k \in 1..Len(val.v) |-> str(val.v[k])]))
                        ELSE val] ]

(* clean_item of the JSON branch (lines 669-680) *)
CleanItem(it) ==
    [ id |-> it.id,
      list_id |-> Get(it, "list_id"),
      created_date |-> IsoFormat(DateCreated(it)),
      created_by |-> Get(it, "created_by"),
      fields |-> [c \in ColumnsOf(<<it>>) |-> extract_field_value(it, c)] ]

(* the field lists of the exported records *)
ExportFieldLists ==
    { <<>>,
      <<[column_id |-> "C2", text |-> PyStr(sHigh)]>>,
      <<[column_id |-> "C10", user |-> PyList(<<PyStr(sU1), PyStr(sU2)>>)]>>,
      <<[column_id |-> "C1", text |-> PyStr(sTwoLines)]>>,
      <<[column_id |-> "C2", select |-> PyList(<<PyStr(sHigh)>>)],
        [column_id |-> "C1", checkbox |-> PyBool(TRUE)]>>,
      <<[column_id |-> "C1", number |-> PyList(<<PyInt(42)>>)],
        [column_id |-> "C10", user |-> PyList(<<>>)]>>,
      <<[column_id |-> "C1", text |-> PyStr(sHigh)],
        [column_id |-> "C1", text |-> PyStr(sLow)]>> }

(* a record with the creation data the store adds to it *)
WithMeta(it) ==
    [k \in DOMAIN it \cup {"created_by", "date_created"} |->
        IF k = "created_by" THEN PyStr(sU1)
        ELSE IF k = "date_created" THEN 86400
        ELSE it[k]]

ExportItemSeqs ==
    UNION { { [i \in 1..n |-> IF meta THEN WithMeta(MakeItem(i, fs[i]))
                                       ELSE MakeItem(i, fs[i])] :
                fs \in [1..n -> ExportFieldLists], meta \in BOOLEAN } :
            n \in 1..MaxExportItems }

ExportFormats == {sJson, sCsv, <<"C","S","V">>, <<"x","m","l">>}

InitExport ==
    /\ IdleCodec /\ IdleClient /\ IdleCreate /\ IdleServer /\ IdleGet /\ IdleWeb
    /\ store = 0 /\ max_items = 0 /\ cursor = PyNone
    /\ requests = <<>> /\ responses = <<>>
    /\ tool = "export_list_items" /\ pc = "render"
    /\ all_items \in ExportItemSeqs
    /\ filter_column_id = "" /\ filter_operator = "contains" /\ filter_value = PyNone
    /\ filtered_items = <<>>
    /\ items_to_export = all_items
    /\ result = "exported"
    /\ export_format \in ExportFormats
    /\ export_data = <<>> /\ all_columns = <<>>
    /\ rows = <<>> /\ csv_lines = <<>> /\ csv_output = <<>>

(* export_list_items, lines 665-732 *)
ExportRender ==
    /\ pc = "render" /\ tool = "export_list_items"
    /\ IF lower(export_format) = sJson
       THEN /\ export_data' =
                   [i \in 1..Len(items_to_export) |-> CleanItem(items_to_export[i])]
            /\ result' = "json"
            /\ UNCHANGED <<all_columns, rows, csv_lines, csv_output>>
       ELSE IF lower(export_format) = sCsv
       THEN /\ all_columns' = sorted(ColumnsOf(items_to_export))
            /\ rows' = [i \in 1..Len(items_to_export) |->
                           CsvRow(items_to_export[i], all_columns')]
            /\ csv_lines' = <<CsvHeader(all_columns')>>
                            \o [i \in 1..Len(rows') |-> Join(<<",">>, rows'[i])]
            /\ csv_output' = Join(<<"\n">>, csv_lines')
            /\ result' = "csv"
            /\ UNCHANGED export_data
       ELSE /\ result' = "unsupported"
            /\ UNCHANGED <<export_data, all_columns, rows, csv_lines, csv_output>>
    /\ pc' = "done"
    /\ UNCHANGED <<tool, fetchVars, filter_column_id, filter_operator, filter_value,
                   filtered_items, items_to_export, codecVars, export_format,
                   clientVars, createVars, serverVars, getVars, webVars>>

NextExport == ExportRender

SpecExport == InitExport /\ [][NextExport]_vars

-----------------------------------------------------------------------------
(* Properties of the export rendering (checked under SpecExport) *)

CsvRendered == pc = "done" /\ result = "csv"
JsonRendered == pc = "done" /\ result = "json"

(* number of lines of a text: one more than its line breaks *)
LineCount(text) == 1 + Cardinality({k \in 1..Len(text) : text[k] = "\n"})

(* the columns in the order the header has to list them *)
IsSortedUnion(cols) ==
    /\ {cols[k] : k \in 1..Len(cols)} = ColumnsOf(items_to_export)
    /\ \A k \in 1..(Len(cols) - 1) :
          StrLess(ColumnChars(cols[k]), ColumnChars(cols[k + 1]))

(* header and rows of the CSV output, as C12 states them *)
C12_HeaderAndRows ==
    /\ IsSortedUnion(all_columns)
    /\ csv_lines[1] = Join(<<",">>,
           <<Quote(sItemId), Quote(sCreatedDate), Quote(sCreatedBy)>>
           \o [k \in 1..Len(all_columns) |-> Quote(ColumnChars(all_columns[k]))])
    /\ Len(csv_lines) = Len(items_to_export) + 1
    /\ \A i \in 1..Len(items_to_export) :
          /\ csv_lines[i + 1] = Join(<<",">>, rows[i])
          /\ rows[i][1] = Quote(NatToStr(items_to_export[i].id))
          /\ Len(rows[i]) = 3 + Len(all_columns)

NoLineBreakInCells ==
    \A i \in 1..Len(rows) : \A k \in 1..Len(rows[i]) : LineCount(rows[i][k]) = 1

(* C12 as stated: sorted duplicate-free header, one row per exported record
   in record order, and the output has one line more than exported records. *)
C12_LineCountIsRecordsPlusOne ==
    CsvRendered =>
        /\ C12_HeaderAndRows
        /\ LineCount(csv_output) = Len(items_to_export) + 1

(* C12 amended: the header is the fixed columns followed by the sorted
   duplicate-free union of the column ids, csv_lines holds one row per
   exported record in record order, and the output has one line more than
   exported records whenever no cell holds a line break. *)
C12_RowCountIsRecordsPlusOne ==
    CsvRendered =>
        /\ C12_HeaderAndRows
        /\ NoLineBreakInCells => LineCount(csv_output) = Len(items_to_export) + 1

(* two records with the columns C2 and C10, C1 under the header C1, C10, C2 *)
C12_Witness ==
    /\ CsvRendered /\ Len(items_to_export) = 2
    /\ all_columns = <<"C1", "C10", "C2">>
    /\ NoLineBreakInCells
    /\ LineCount(csv_output) = 3

(* the text a cell has to hold for a decoded value *)
CellText(val) ==
    CASE val.t = "none" -> <<>>
      [] val.t = "list" -> Join(<<",", " ">>, [k \in 1..Len(val.v) |-> str(val.v[k])])
      [] OTHER -> str(val)

(* C13: in JSON mode the fields map of a record holds, for every column id of
   the record, the decoded value, lists as lists; in CSV mode a cell holds
   the decoded value, list elements joined by ", ", and the empty quoted
   string for a column the record lacks or that decodes to None. *)
C13_CellRendering ==
    /\ JsonRendered =>
          /\ Len(export_data) = Len(items_to_export)
          /\ \A i \in 1..Len(items_to_export) :
                LET it == items_to_export[i]
                IN  /\ DOMAIN export_data[i].fields = ColumnsOf(<<it>>)
                    /\ \A c \in ColumnsOf(<<it>>) :
                          export_data[i].fields[c] = extract_field_value(it, c)
    /\ CsvRendered =>
          \A i \in 1..Len(items_to_export) : \A k \in 1..Len(all_columns) :
              LET it == items_to_export[i]
                  val == extract_field_value(it, all_columns[k])
              IN  /\ rows[i][3 + k] = Quote(CellText(val))
                  /\ (all_columns[k] \notin ColumnsOf(<<it>>) \/ val = PyNone)
                        => rows[i][3 + k] = <<"\"", "\"">>

(* a user list kept as a list in the fields map *)
C13_Witness ==
    /\ JsonRendered
    /\ \E i \in 1..Len(export_data) :
          /\ "C10" \in DOMAIN export_data[i].fields
          /\ export_data[i].fields["C10"] = PyList(<<PyStr(sU1), PyStr(sU2)>>)

(* a user list joined in its cell, and an empty cell for a column the record lacks *)
C13_WitnessCsv ==
    /\ CsvRendered /\ Len(items_to_export) = 2
    /\ all_columns = <<"C10", "C2">>
    /\ rows[1][4] = Quote(sU1 \o <<",", " ">> \o sU2)
    /\ rows[1][5] = <<"\"", "\"">>

-----------------------------------------------------------------------------
(* The client: SlackListsClient._make_request and the methods that call it *)

sHttpError == <<"H","T","T","P"," ","e","r","r","o","r",":"," ">>
sRequestFailed == <<"R","e","q","u","e","s","t"," ","f","a","i","l","e","d",":"," ">>
sSlackApiError == <<"S","l","a","c","k"," ","A","P","I"," ","e","r","r","o","r",":"," ">>
sUnknownError == <<"U","n","k","n","o","w","n"," ","e","r","r","o","r">>
sInvalidAuth == <<"i","n","v","a","l","i","d","_","a","u","t","h">>
sListNotFound == <<"l","i","s","t","_","n","o","t","_","f","o","u","n","d">>
sConnectFailed == <<"A","l","l"," ","c","o","n","n","e","c","t","i","o","n"," ","a","t","t","e","m","p","t","s"," ","f","a","i","l","e","d">>
sTimedOut == <<"T","h","e"," ","r","e","a","d"," ","o","p","e","r","a","t","i","o","n"," ","t","i","m","e","d"," ","o","u","t">>
sExpectingValue == <<"E","x","p","e","c","t","i","n","g"," ","v","a","l","u","e">>
sNoGet == <<"'","l","i","s","t","'"," ","o","b","j","e","c","t"," ","h","a","s"," ","n","o"," ","a","t","t","r","i","b","u","t","e"," ","'","g","e","t","'">>
sRec9 == <<"R","e","c","9">>

Exc(type, msg) == [type |-> type, msg |-> msg]

(* the exception classes below httpx.HTTPError *)
HTTPErrorTypes == {"ConnectError", "ReadTimeout", "HTTPStatusError"}

(* str() of a transport exception *)
TransportText(type) ==
    IF type = "ConnectError" THEN sConnectFailed ELSE sTimedOut

(* str() of the httpx.HTTPStatusError of a status; the reason phrase and the
   URL that follow the status code are left out *)
StatusText(status) ==
    ( CASE status \in 300..399 -> <<"R","e","d","i","r","e","c","t"," ","r","e","s","p","o","n","s","e"," ","'">>
        [] status \in 400..499 -> <<"C","l","i","e","n","t"," ","e","r","r","o","r"," ","'">>
        [] status \in 500..599 -> <<"S","e","r","v","e","r"," ","e","r","r","o","r"," ","'">>
        [] OTHER -> <<"I","n","f","o","r","m","a","t","i","o","n","a","l"," ","r","e","s","p","o","n","s","e"," ","'">> )
    \o NatToStr(status) \o <<"'">>

(* response.is_success *)
IsSuccess(status) == status \in 200..299

Statuses == {200, 201, 302, 404, 429, 500}

(* the JSON objects a response body may hold *)
BodyObjects ==
    { [ok |-> PyBool(TRUE)],
      [ok |-> PyBool(TRUE), items |-> PyList(<<>>)],
      [ok |-> PyBool(TRUE), error |-> PyStr(sInvalidAuth)],
      [ok |-> PyBool(FALSE), error |-> PyStr(sInvalidAuth)],
      [ok |-> PyBool(FALSE), error |-> PyStr(sListNotFound)],
      [ok |-> PyBool(FALSE)],
      [error |-> PyStr(sListNotFound)] }

(* a body that is no JSON text, a JSON array, or a JSON object *)
Bodies ==
    {[kind |-> "text"], [kind |-> "array"]}
    \cup { [kind |-> "object", data |-> d] : d \in BodyObjects }

(* what the HTTP layer may answer to a request *)
HttpOutcomes ==
    { [kind |-> "transport", exc |-> x] : x \in {"ConnectError", "ReadTimeout"} }
    \cup { [kind |-> "response", status |-> st, body |-> b] : st \in Statuses, b \in Bodies }

Raise(exc) == [raised |-> exc, returned |-> NoData]
Return(data) == [raised |-> NoException, returned |-> data]

(* mutant: the ok flag of the body is not looked at *)
TryBody_NoOkCheck(outcome) ==
    IF outcome.kind = "transport"
    THEN Raise(Exc(outcome.exc, TransportText(outcome.exc)))
    ELSE IF ~IsSuccess(outcome.status)
    THEN Raise(Exc("HTTPStatusError", StatusText(outcome.status)))
    ELSE IF outcome.body.kind = "text"
    THEN Raise(Exc("JSONDecodeError", sExpectingValue))
    ELSE IF outcome.body.kind = "array"
    THEN Raise(Exc("AttributeError", sNoGet))
    ELSE Return(outcome.body.data)

(* the try block of _make_request (lines 79-93) *)
TryBody(outcome) ==
    IF outcome.kind = "transport"
    THEN Raise(Exc(outcome.exc, TransportText(outcome.exc)))
    ELSE IF ~IsSuccess(outcome.status)
    THEN Raise(Exc("HTTPStatusError", StatusText(outcome.status)))
    ELSE IF outcome.body.kind = "text"
    THEN Raise(Exc("JSONDecodeError", sExpectingValue))
    ELSE IF outcome.body.kind = "array"
    THEN Raise(Exc("AttributeError", sNoGet))
    ELSE LET data == outcome.body.data
         IN  IF ~Truthy(Get(data, "ok"))
             THEN Raise(Exc("SlackListsError",
                            sSlackApiError \o (IF Has(data, "error")
                                               THEN str(data["error"])
                                               ELSE sUnknownError)))
             ELSE Return(data)

(* the except clauses of _make_request (lines 95-98): an exception of the
   try block, the SlackListsError of line 91 included, leaves wrapped *)
Handlers(res) ==
    IF res.raised = NoException THEN res
    ELSE IF res.raised.type \in HTTPErrorTypes
    THEN Raise(Exc("SlackListsError", sHttpError \o res.raised.msg))
    ELSE Raise(Exc("SlackListsError", sRequestFailed \o res.raised.msg))

(* _make_request, given what the HTTP layer answers *)
MakeRequest(outcome) == Handlers(TryBody(outcome))

sTokenRequired == <<"S","L","A","C","K","_","B","O","T","_","T","O","K","E","N"," ","e","n","v","i","r","o","n","m","e","n","t"," ","v","a","r","i","a","b","l","e"," ","i","s"," ","r","e","q","u","i","r","e","d",".">>

(* mutant: a client is built for the token of the moment at every call *)
get_slack_client_Eager(client, token) ==
    IF ~Truthy(token)
    THEN [client |-> client, built |-> FALSE,
          raised |-> Exc("SlackListsError", sTokenRequired)]
    ELSE [client |-> SlackListsClient(token.v), built |-> TRUE,
          raised |-> NoException]

(* get_slack_client (lines 141-154): the instance, whether this call has
   constructed it, or the exception *)
get_slack_client(client, token) ==
    IF client # NoClient
    THEN [client |-> client, built |-> FALSE, raised |-> NoException]
    ELSE IF ~Truthy(token)
    THEN [client |-> NoClient, built |-> FALSE,
          raised |-> Exc("SlackListsError", sTokenRequired)]
    ELSE [client |-> SlackListsClient(token.v), built |-> TRUE,
          raised |-> NoException]

(* mutant: the handlers catch SlackListsError only *)
ToolHandlers_SlackErrorsOnly(exc) ==
    IF exc.type = "SlackListsError" THEN "slack_error" ELSE "propagated"

(* the except clauses that end every tool (lines 305-309, 400-404, 470-474,
   591-595, 734-738): which text the handler returns for an exception; every
   exception modelled here is a subclass of Exception *)
ToolHandlers(exc) ==
    IF exc.type = "SlackListsError" THEN "slack_error" ELSE "unexpected_error"

(* the HTTP request a client method hands to _make_request *)
HttpRequest(call) ==
    IF call.name = "create_list_item"
    THEN [ method |-> "POST", endpoint |-> "slackLists.items.create",
           json |-> IF Truthy(call.parent_item_id)
                    THEN [list_id |-> call.list_id, initial_fields |-> call.fields,
                          parent_item_id |-> call.parent_item_id]
                    ELSE [list_id |-> call.list_id, initial_fields |-> call.fields] ]
    ELSE [ method |-> "GET", endpoint |-> "slackLists.items.list",
           params |-> ClientRequest(call.limit, call.cursor) ]

ClientCalls ==
    { [name |-> "create_list_item", list_id |-> "F1",
       fields |-> <<create_text_field("C1", PyStr(sHigh))>>, parent_item_id |-> p] :
        p \in {PyNone, PyStr(<<>>), PyStr(sRec9)} }
    \cup { [name |-> "get_list_items", list_id |-> "F1", limit |-> l, cursor |-> c] :
             l \in {1, PageLimit}, c \in {PyNone, PyStr(<<>>), Token(1)} }

InitClient ==
    /\ IdleFetch /\ IdleFilter /\ IdleCodec /\ IdleExport /\ IdleCreate /\ IdleServer /\ IdleGet /\ IdleWeb
    /\ tool = "client" /\ pc = "call"
    /\ client_call \in ClientCalls
    /\ http_log = <<>> /\ raised = NoException /\ returned = NoData

(* one call of create_list_item or get_list_items (lines 100-120) *)
ClientCall ==
    /\ pc = "call" /\ tool = "client"
    /\ \E outcome \in HttpOutcomes :
          /\ http_log' = Append(http_log, [request |-> HttpRequest(client_call),
                                           outcome |-> outcome])
          /\ raised' = MakeRequest(outcome).raised
          /\ returned' = MakeRequest(outcome).returned
    /\ pc' = "done"
    /\ UNCHANGED <<tool, fetchVars, filterVars, codecVars, exportVars, createVars, serverVars, getVars, webVars, client_call>>

NextClient == ClientCall

SpecClient == InitClient /\ [][NextClient]_vars

-----------------------------------------------------------------------------
(* Properties of the client (checked under SpecClient) *)

ClientCalled == pc = "done" /\ tool = "client"

LastOutcome == http_log[Len(http_log)].outcome

RaisedSlackListsError == raised.type = "SlackListsError" /\ returned = NoData

(* C14: a transport error, a status outside 2xx and a body whose ok flag is
   false each leave the client call as a SlackListsError whose message holds
   the upstream error code; a body with ok true is returned as it is and
   nothing is raised. *)
C14_FailuresBecomeSlackListsError ==
    ClientCalled =>
        LET o == LastOutcome
            okBody(flag) == /\ o.kind = "response" /\ IsSuccess(o.status)
                            /\ o.body.kind = "object"
                            /\ Get(o.body.data, "ok") = PyBool(flag)
        IN  /\ o.kind = "transport" =>
                  /\ RaisedSlackListsError
                  /\ IsSubstring(TransportText(o.exc), raised.msg)
            /\ (o.kind = "response" /\ ~IsSuccess(o.status)) =>
                  /\ RaisedSlackListsError
                  /\ IsSubstring(NatToStr(o.status), raised.msg)
            /\ okBody(FALSE) =>
                  /\ RaisedSlackListsError
                  /\ Has(o.body.data, "error") =>
                        IsSubstring(o.body.data["error"].v, raised.msg)
            /\ okBody(TRUE) =>
                  /\ raised = NoException
                  /\ returned = o.body.data
            /\ raised.type \in {"none", "SlackListsError"}

(* the store answers 200 with ok false and the error invalid_auth *)
C14_Witness ==
    /\ ClientCalled
    /\ LastOutcome = [kind |-> "response", status |-> 200,
                      body |-> [kind |-> "object",
                                data |-> [ok |-> PyBool(FALSE),
                                          error |-> PyStr(sInvalidAuth)]]]
    /\ raised = Exc("SlackListsError", sRequestFailed \o sSlackApiError \o sInvalidAuth)

-----------------------------------------------------------------------------
(* Failing page requests: the fetch loops and the client calls together *)

(* one failing answer of each kind *)
FetchFailures ==
    { [kind |-> "transport", exc |-> "ConnectError"],
      [kind |-> "response", status |-> 429, body |-> [kind |-> "text"]],
      [kind |-> "response", status |-> 200,
       body |-> [kind |-> "object",
                 data |-> [ok |-> PyBool(FALSE), error |-> PyStr(sInvalidAuth)]]] }

(* mutant: the loop asks for the page again after a failure *)
FilterFetchFail_Retry ==
    /\ pc = "fetch" /\ tool = "filter_list_items"
    /\ Len(all_items) < max_items
    /\ Len(requests) < MaxPages
    /\ \E outcome \in FetchFailures :
          /\ requests' = Append(requests,
                                ClientRequest(BatchSize(max_items, Len(all_items)), cursor))
          /\ raised' = MakeRequest(outcome).raised
    /\ UNCHANGED <<pc, tool, store, max_items, all_items, cursor, responses,
                   filterVars, codecVars, exportVars, createVars, serverVars, getVars, webVars, client_call, http_log, returned>>

(* filter_list_items: a page request of the bounded fetch fails; the
   SlackListsError leaves the loop and is returned by the handler (line 591) *)
FilterFetchFail ==
    /\ pc = "fetch" /\ tool = "filter_list_items"
    /\ Len(all_items) < max_items
    /\ Len(requests) < MaxPages
    /\ \E outcome \in FetchFailures :
          /\ requests' = Append(requests,
                                ClientRequest(BatchSize(max_items, Len(all_items)), cursor))
          /\ raised' = MakeRequest(outcome).raised
    /\ result' = ToolHandlers(raised')
    /\ pc' = "done"
    /\ UNCHANGED <<tool, store, max_items, all_items, cursor, responses,
                   filter_column_id, filter_operator, filter_value, filtered_items,
                   items_to_export, codecVars, exportVars, createVars, serverVars, getVars, webVars, client_call, http_log,
                   returned>>

(* export_list_items: a page request of get_all_list_items fails; the
   SlackListsError leaves the loop and is returned by the handler (line 734) *)
GetAllFail ==
    /\ pc = "fetch" /\ tool = "export_list_items"
    /\ Len(requests) < MaxPages
    /\ \E outcome \in FetchFailures :
          /\ requests' = Append(requests, ClientRequest(PageLimit, cursor))
          /\ raised' = MakeRequest(outcome).raised
    /\ result' = ToolHandlers(raised')
    /\ pc' = "done"
    /\ UNCHANGED <<tool, store, max_items, all_items, cursor, responses,
                   filter_column_id, filter_operator, filter_value, filtered_items,
                   items_to_export, codecVars, exportVars, createVars, serverVars, getVars, webVars, client_call, http_log,
                   returned>>

InitFail == Init \/ InitClient

NextFail == Next \/ FilterFetchFail \/ GetAllFail \/ ClientCall

SpecFail == InitFail /\ [][NextFail]_vars

-----------------------------------------------------------------------------
(* Properties of failing requests (checked under SpecFail) *)

Failed == raised # NoException

FetchTool == tool \in {"filter_list_items", "export_list_items"}

(* every call has sent one request, and a failure has ended the operation *)
OneRequestPerCall ==
    /\ tool = "client" => Len(http_log) = (IF pc = "done" THEN 1 ELSE 0)
    /\ FetchTool =>
          /\ Len(requests) = Len(responses) + (IF Failed THEN 1 ELSE 0)
          /\ Failed => pc = "done" /\ result = "slack_error"

(* no request is sent once a call has failed *)
NoRequestAfterFailure ==
    Failed => UNCHANGED <<requests, http_log, raised, pc, result>>

(* C15: every client call issues one HTTP request; a failed request is not
   repeated, and a failed page request ends get_all_list_items or the bounded
   fetch, and with it the handler, with that error. *)
C15_NoRetry == []OneRequestPerCall /\ [][NoRequestAfterFailure]_vars

(* the second page request of an export fails *)
C15_Witness ==
    /\ tool = "export_list_items" /\ Failed
    /\ Len(requests) = 2 /\ Len(responses) = 1
    /\ pc = "done" /\ result = "slack_error"

-----------------------------------------------------------------------------
(* Item creation: the field list built from field definitions *)

sItem == <<"I","t","e","m"," ">>
sUnknown == <<"U","n","k","n","o","w","n">>
sNoGetStr == <<"'","s","t","r","'"," ","o","b","j","e","c","t"," ","h","a","s"," ","n","o"," ","a","t","t","r","i","b","u","t","e"," ","'","g","e","t","'">>
sNoGetNone == <<"'","N","o","n","e","T","y","p","e","'"," ","o","b","j","e","c","t"," ","h","a","s"," ","n","o"," ","a","t","t","r","i","b","u","t","e"," ","'","g","e","t","'">>
sNotIterable == <<"'","N","o","n","e","T","y","p","e","'"," ","o","b","j","e","c","t"," ","i","s"," ","n","o","t"," ","i","t","e","r","a","b","l","e">>

TitleColumn == "Col10000000"

(* a JSON object, as opposed to a string, a number, a list or null *)
IsObject(x) == ~Has(x, "t")

(* str() of the KeyError of the first key a field definition lacks *)
MissingKey(field_def) ==
    IF ~Has(field_def, "column_id") THEN <<"'","c","o","l","u","m","n","_","i","d","'">>
    ELSE IF ~Has(field_def, "type") THEN <<"'","t","y","p","e","'">>
    ELSE <<"'","v","a","l","u","e","'">>

(* mutant: a definition of a type without a branch ends the loop with an error *)
RECURSIVE AppendFieldDefs_Strict(_, _)
AppendFieldDefs_Strict(fs, defs) ==
    IF defs = <<>> THEN [fields |-> fs, raised |-> NoException]
    ELSE LET field_def == Head(defs)
         IN  IF ~({"column_id", "type", "value"} \subseteq DOMAIN field_def)
             THEN [fields |-> fs, raised |-> Exc("KeyError", MissingKey(field_def))]
             ELSE IF EncodeFieldDef(field_def["column_id"], field_def["type"],
                                    field_def["value"]) = <<>>
             THEN [fields |-> fs, raised |-> Exc("ValueError", sUnknown)]
             ELSE AppendFieldDefs_Strict(
                      fs \o EncodeFieldDef(field_def["column_id"], field_def["type"],
                                           field_def["value"]),
                      Tail(defs))

(* the loop over the field definitions (lines 268-286, 358-374): the field
   list once every definition is handled, or the exception that ends it *)
RECURSIVE AppendFieldDefs(_, _)
AppendFieldDefs(fs, defs) ==
    IF defs = <<>> THEN [fields |-> fs, raised |-> NoException]
    ELSE LET field_def == Head(defs)
         IN  IF ~({"column_id", "type", "value"} \subseteq DOMAIN field_def)
             THEN [fields |-> fs, raised |-> Exc("KeyError", MissingKey(field_def))]
             ELSE AppendFieldDefs(
                      fs \o EncodeFieldDef(field_def["column_id"], field_def["type"],
                                           field_def["value"]),
                      Tail(defs))

(* create_multiple_list_items, lines 352-374: title and field list of item i *)
BuildItemFields(item_data, i) ==
    IF ~IsObject(item_data)
    THEN [fields |-> <<>>, raised |-> Exc("AttributeError", sNoGetStr)]
    ELSE LET ttl == IF Has(item_data, "title") THEN item_data["title"]
                    ELSE PyStr(sItem \o NatToStr(i))
             defs == IF Has(item_data, "fields") THEN item_data["fields"]
                     ELSE PyList(<<>>)
             first == <<create_text_field(TitleColumn, ttl)>>
         IN  IF defs.t # "list"
             THEN [fields |-> first, raised |-> Exc("TypeError", sNotIterable)]
             ELSE AppendFieldDefs(first, defs.v)

(* result.get("item", {}).get("id", "Unknown") of a returned body: the id
   or the exception *)
ItemId(data) ==
    IF ~Has(data, "item") THEN [id |-> PyStr(sUnknown), raised |-> NoException]
    ELSE IF ~IsObject(data["item"])
    THEN [id |-> PyNone, raised |-> Exc("AttributeError", sNoGetNone)]
    ELSE IF Has(data["item"], "id")
    THEN [id |-> data["item"]["id"], raised |-> NoException]
    ELSE [id |-> PyStr(sUnknown), raised |-> NoException]

(* what the HTTP layer may answer to a create request *)
CreateOutcomes ==
    { [kind |-> "transport", exc |-> "ConnectError"],
      [kind |-> "response", status |-> 200,
       body |-> [kind |-> "object",
                 data |-> [ok |-> PyBool(FALSE), error |-> PyStr(sInvalidAuth)]]],
      [kind |-> "response", status |-> 200,
       body |-> [kind |-> "object",
                 data |-> [ok |-> PyBool(TRUE), item |-> [id |-> PyStr(sRec9)]]]],
      [kind |-> "response", status |-> 200,
       body |-> [kind |-> "object", data |-> [ok |-> PyBool(TRUE), item |-> PyNone]]] }

(* the store has taken the item in *)
Accepted(outcome) == MakeRequest(outcome).raised = NoException

-----------------------------------------------------------------------------
(* Bulk creation: create_multiple_list_items *)

TextDef(col, val) == [column_id |-> col, type |-> "text", value |-> val]

(* the elements of an items_data array *)
BulkItemData ==
    { [title |-> PyStr(sHigh), fields |-> PyList(<<>>)],
      [fields |-> PyList(<<TextDef("C1", PyStr(sLow))>>)],
      [title |-> PyStr(sLow),
       fields |-> PyList(<<[column_id |-> "C1", type |-> "priority",
                            value |-> PyInt(1)]>>)],
      [title |-> PyStr(sLow),
       fields |-> PyList(<<[column_id |-> "C1", type |-> "text"]>>)],
      [title |-> PyStr(sLow), fields |-> PyNone],
      PyStr(sHigh) }

(* items_data as json.loads reads it: no JSON, a JSON object, or an array *)
BulkInputs ==
    { [kind |-> "bad_json"], [kind |-> "object"] }
    \cup UNION { { [kind |-> "array", items |-> its] : its \in [1..n -> BulkItemData] } :
                 n \in 0..MaxBulkItems }

DefaultDelay == 12

RateLimitDelays == {0, DefaultDelay}

BulkTool == tool = "create_multiple_list_items"

InitBulk ==
    /\ IdleFetch /\ IdleFilter /\ IdleCodec /\ IdleExport /\ IdleClient /\ IdleServer /\ IdleGet /\ IdleWeb
    /\ tool = "create_multiple_list_items" /\ pc = "start"
    /\ items_data \in BulkInputs
    /\ rate_limit_delay \in RateLimitDelays
    /\ title = PyNone /\ additional_fields = NoInput /\ parent_item_id = PyNone
    /\ initial_fields = <<>> /\ fields_added = 0
    /\ item_index = 0 /\ successful = 0 /\ failed = 0 /\ results = <<>>
    /\ events = <<>> /\ created = <<>>

(* lines 334-350: the input is parsed and checked, the loop is entered *)
BulkStart ==
    /\ pc = "start" /\ BulkTool
    /\ IF items_data.kind = "bad_json"
       THEN /\ result' = "parse_error" /\ pc' = "done"
            /\ raised' = Exc("JSONDecodeError", sExpectingValue)
            /\ UNCHANGED item_index
       ELSE IF items_data.kind # "array"
       THEN result' = "not_array" /\ pc' = "done" /\ UNCHANGED <<item_index, raised>>
       ELSE IF items_data.items = <<>>
       THEN result' = "summary" /\ pc' = "done" /\ UNCHANGED <<item_index, raised>>
       ELSE result' = result /\ pc' = "item" /\ item_index' = 1 /\ UNCHANGED raised
    /\ UNCHANGED <<tool, fetchVars, filter_column_id, filter_operator, filter_value,
                   filtered_items, items_to_export, codecVars, exportVars,
                   client_call, http_log, returned, serverVars, getVars, webVars,
                   title, additional_fields, parent_item_id, initial_fields,
                   fields_added, items_data, rate_limit_delay, successful, failed,
                   results, events, created>>

(* lines 351-377: the fields of item i are built and its create call is
   issued; an exception on the way is the item's failure (lines 383-385) *)
BulkIssue ==
    /\ pc = "item" /\ BulkTool
    /\ LET built == BuildItemFields(items_data.items[item_index], item_index)
       IN  /\ initial_fields' = built.fields
           /\ IF built.raised # NoException
              THEN /\ results' = Append(results, [index |-> item_index, ok |-> FALSE,
                                                  error |-> built.raised.msg])
                   /\ failed' = failed + 1
                   /\ pc' = "pause"
                   /\ UNCHANGED events
              ELSE /\ events' = Append(events,
                        [e |-> "call", index |-> item_index,
                         request |-> HttpRequest(
                             [name |-> "create_list_item", list_id |-> "F1",
                              fields |-> built.fields, parent_item_id |-> PyNone])])
                   /\ pc' = "await"
                   /\ UNCHANGED <<results, failed>>
    /\ UNCHANGED <<tool, fetchVars, filterVars, codecVars, exportVars, clientVars, serverVars, getVars, webVars,
                   title, additional_fields, parent_item_id, fields_added, items_data,
                   rate_limit_delay, item_index, successful, created>>

(* mutant: the first failed create call ends the loop *)
BulkComplete_StopOnFailure ==
    /\ pc = "await" /\ BulkTool
    /\ \E outcome \in CreateOutcomes :
          LET res == MakeRequest(outcome)
              call == events[Len(events)]
              got == IF res.raised = NoException THEN ItemId(res.returned).raised
                     ELSE res.raised
          IN  /\ events' = Append(events, [e |-> "done", index |-> item_index,
                                           outcome |-> outcome])
              /\ created' = IF Accepted(outcome)
                            THEN Append(created, call.request.json) ELSE created
              /\ IF got = NoException
                 THEN /\ results' = Append(results,
                             [index |-> item_index, ok |-> TRUE,
                              item_id |-> ItemId(res.returned).id])
                      /\ successful' = successful + 1
                      /\ pc' = "pause"
                      /\ UNCHANGED <<failed, result>>
                 ELSE /\ results' = Append(results,
                             [index |-> item_index, ok |-> FALSE, error |-> got.msg])
                      /\ failed' = failed + 1
                      /\ result' = "summary"
                      /\ pc' = "done"
                      /\ UNCHANGED successful
    /\ UNCHANGED <<tool, fetchVars, filter_column_id, filter_operator, filter_value,
                   filtered_items, items_to_export, codecVars, exportVars, clientVars, serverVars, getVars, webVars,
                   title, additional_fields, parent_item_id, initial_fields,
                   fields_added, items_data, rate_limit_delay, item_index>>

(* lines 377-385: the create call of item i completes; the item is counted
   as successful, or as failed when the call or the reading of its id raised *)
BulkComplete ==
    /\ pc = "await" /\ BulkTool
    /\ \E outcome \in CreateOutcomes :
          LET res == MakeRequest(outcome)
              call == events[Len(events)]
              got == IF res.raised = NoException THEN ItemId(res.returned).raised
                     ELSE res.raised
          IN  /\ events' = Append(events, [e |-> "done", index |-> item_index,
                                           outcome |-> outcome])
              /\ created' = IF Accepted(outcome)
                            THEN Append(created, call.request.json) ELSE created
              /\ IF got = NoException
                 THEN /\ results' = Append(results,
                             [index |-> item_index, ok |-> TRUE,
                              item_id |-> ItemId(res.returned).id])
                      /\ successful' = successful + 1
                      /\ UNCHANGED failed
                 ELSE /\ results' = Append(results,
                             [index |-> item_index, ok |-> FALSE, error |-> got.msg])
                      /\ failed' = failed + 1
                      /\ UNCHANGED successful
    /\ pc' = "pause"
    /\ UNCHANGED <<tool, fetchVars, filterVars, codecVars, exportVars, clientVars, serverVars, getVars, webVars,
                   title, additional_fields, parent_item_id, initial_fields,
                   fields_added, items_data, rate_limit_delay, item_index>>

(* lines 387-389: the pause between two items *)
BulkPause ==
    /\ pc = "pause" /\ BulkTool
    /\ item_index < Len(items_data.items)
    /\ events' = Append(events, [e |-> "sleep", index |-> item_index,
                                 delay |-> rate_limit_delay])
    /\ item_index' = item_index + 1
    /\ pc' = "item"
    /\ UNCHANGED <<tool, fetchVars, filterVars, codecVars, exportVars, clientVars, serverVars, getVars, webVars,
                   title, additional_fields, parent_item_id, initial_fields,
                   fields_added, items_data, rate_limit_delay, successful, failed,
                   results, created>>

(* mutant: a pause follows the last item too *)
BulkFinish_PauseFirst ==
    /\ pc = "pause" /\ BulkTool
    /\ ~(item_index < Len(items_data.items))
    /\ events' = Append(events, [e |-> "sleep", index |-> item_index,
                                 delay |-> rate_limit_delay])
    /\ result' = "summary"
    /\ pc' = "done"
    /\ UNCHANGED <<tool, fetchVars, filter_column_id, filter_operator, filter_value,
                   filtered_items, items_to_export, codecVars, exportVars, clientVars, serverVars, getVars, webVars,
                   title, additional_fields, parent_item_id, initial_fields,
                   fields_added, items_data, rate_limit_delay, item_index, successful,
                   failed, results, created>>

(* lines 387-398: no pause after the last item; the summary is returned *)
BulkFinish ==
    /\ pc = "pause" /\ BulkTool
    /\ ~(item_index < Len(items_data.items))
    /\ result' = "summary"
    /\ pc' = "done"
    /\ UNCHANGED <<tool, fetchVars, filter_column_id, filter_operator, filter_value,
                   filtered_items, items_to_export, codecVars, exportVars, clientVars, serverVars, getVars, webVars,
                   title, additional_fields, parent_item_id, initial_fields,
                   fields_added, items_data, rate_limit_delay, item_index, successful,
                   failed, results, events, created>>

NextBulk == BulkStart \/ BulkIssue \/ BulkComplete \/ BulkPause \/ BulkFinish

SpecBulk == InitBulk /\ [][NextBulk]_vars

-----------------------------------------------------------------------------
(* Properties of the bulk creation (checked under SpecBulk) *)

BulkRunning == BulkTool /\ items_data.kind = "array"

BulkDone == BulkRunning /\ pc = "done"

NItems == Len(items_data.items)

(* the positions of the events of a kind *)
EventIdx(kind) == {p \in 1..Len(events) : events[p].e = kind}

(* item k can be turned into a field list *)
WellFormed(k) == BuildItemFields(items_data.items[k], k).raised = NoException

(* item k is well formed, its create call returned, and the id was read *)
ItemSucceeds(k) ==
    /\ WellFormed(k)
    /\ \E p \in EventIdx("done") :
          /\ events[p].index = k
          /\ Accepted(events[p].outcome)
          /\ ItemId(MakeRequest(events[p].outcome).returned).raised = NoException

(* the positions of the completions the store accepted *)
AcceptedIdx == {p \in EventIdx("done") : Accepted(events[p].outcome)}

(* C16: a bulk creation of N items ends with successful + failed = N; the
   items are attempted once each, in input order; an item's failure is
   counted for that item only and the items after it are still attempted;
   what the store accepted stays created. *)
C16_EveryItemCounted ==
    BulkRunning =>
        /\ successful + failed = Len(results)
        /\ successful = Cardinality({k \in 1..Len(results) : results[k].ok})
        /\ \A k \in 1..Len(results) :
              results[k].index = k /\ (results[k].ok <=> ItemSucceeds(k))
        /\ \A p, q \in EventIdx("call") : p < q => events[p].index < events[q].index
        /\ Len(created) = Cardinality(AcceptedIdx)
        /\ \A j \in 1..Len(created) :
              created[j] = events[KthOf(AcceptedIdx, j) - 1].request.json
        /\ pc = "done" =>
              /\ Len(results) = NItems
              /\ successful + failed = NItems
              /\ \A k \in 1..NItems :
                    WellFormed(k) => \E p \in EventIdx("call") : events[p].index = k

(* the first of two items fails at the store, the second is created *)
C16_Witness ==
    /\ BulkDone /\ NItems = 2
    /\ WellFormed(1) /\ ~results[1].ok /\ results[2].ok
    /\ successful = 1 /\ failed = 1
    /\ Len(created) = 1

(* create calls issued and not yet completed *)
InFlight == Cardinality(EventIdx("call")) - Cardinality(EventIdx("done"))

(* C17: the create calls of a bulk creation are serialised: a call is issued
   only after the call before it has completed and a pause of
   rate_limit_delay has passed; N items give N - 1 pauses, none after the
   last item; no two calls are in flight together. *)
C17_CallsSerialised ==
    BulkRunning =>
        /\ InFlight \in {0, 1}
        /\ \A p, q \in EventIdx("call") :
              p < q => \E d, z \in (p + 1)..(q - 1) :
                          /\ d < z
                          /\ events[d].e = "done" /\ events[d].index = events[p].index
                          /\ events[z].e = "sleep" /\ events[z].delay = rate_limit_delay
        /\ (pc = "done" /\ NItems >= 1) =>
              /\ Cardinality(EventIdx("sleep")) = NItems - 1
              /\ {events[z].index : z \in EventIdx("sleep")} = 1..(NItems - 1)

(* two items: call, completion, pause, call, completion *)
C17_Witness ==
    /\ BulkDone /\ NItems = 2
    /\ Len(events) = 5
    /\ events[1].e = "call" /\ events[2].e = "done" /\ events[3].e = "sleep"
    /\ events[4].e = "call" /\ events[5].e = "done"
    /\ events[3].delay = DefaultDelay

-----------------------------------------------------------------------------
(* Single creation: create_list_item *)

sNoIndex == <<"s","t","r","i","n","g"," ","i","n","d","i","c","e","s"," ","m","u","s","t"," ","b","e"," ","i","n","t","e","g","e","r","s">>

FieldDef(col, type, val) == [column_id |-> col, type |-> type, value |-> val]

(* field definitions: one of each documented type, a user id that is not a
   list, a type nobody documents, and a definition without its value *)
CreateFieldDefs ==
    { FieldDef("C1", "text", PyStr(sHigh)),
      FieldDef("C2", "date", PyStr(sDate)),
      FieldDef("C1", "user", PyList(<<PyStr(sU1), PyStr(sU2)>>)),
      FieldDef("C2", "user", PyStr(sU1)),
      FieldDef("C1", "select", PyList(<<PyStr(sHigh)>>)),
      FieldDef("C2", "checkbox", PyBool(TRUE)),
      FieldDef("C1", "number", PyInt(42)),
      FieldDef("C2", "email", PyStr(sMail)),
      FieldDef("C1", "phone", PyStr(sPhone)),
      FieldDef("C2", "priority", PyInt(1)),
      [column_id |-> "C1", type |-> "text"] }

(* additional_fields: None, the empty string, no JSON, a JSON object with
   keys, the JSON object without keys, or an array of field definitions *)
CreateInputs ==
    { NoInput, [kind |-> "empty"], [kind |-> "bad_json"], [kind |-> "object"],
      [kind |-> "empty_object"] }
    \cup UNION { { [kind |-> "array", defs |-> ds] : ds \in [1..n -> CreateFieldDefs] } :
                 n \in 0..MaxFieldDefs }

CreateTool == tool = "create_list_item"

InitCreate ==
    /\ IdleFetch /\ IdleFilter /\ IdleCodec /\ IdleExport /\ IdleClient /\ IdleServer /\ IdleGet /\ IdleWeb
    /\ tool = "create_list_item" /\ pc = "start"
    /\ title = PyStr(sHigh)
    /\ additional_fields \in CreateInputs
    /\ parent_item_id \in {PyNone, PyStr(sRec9)}
    /\ initial_fields = <<>> /\ fields_added = 0
    /\ items_data = NoInput /\ rate_limit_delay = 0 /\ item_index = 0
    /\ successful = 0 /\ failed = 0 /\ results = <<>>
    /\ events = <<>> /\ created = <<>>

(* mutant: additional_fields that is no JSON is taken as not given *)
BuildFields_IgnoreBadJson(ttl, extra) ==
    LET first == <<create_text_field(TitleColumn, ttl)>>
    IN  IF extra.kind \in {"none", "empty", "bad_json"}
        THEN [fields |-> first, raised |-> NoException]
        ELSE IF extra.kind = "object"
        THEN [fields |-> first, raised |-> Exc("TypeError", sNoIndex)]
        ELSE IF extra.kind = "empty_object"
        THEN [fields |-> first, raised |-> NoException]
        ELSE AppendFieldDefs(first, extra.defs)

(* lines 262-290: the field list, or the exception that ends the building;
   the loop over a JSON object runs over its keys, which are strings and
   cannot be indexed by "column_id", and not at all when it has none *)
BuildFields(ttl, extra) ==
    LET first == <<create_text_field(TitleColumn, ttl)>>
    IN  IF extra.kind \in {"none", "empty"}
        THEN [fields |-> first, raised |-> NoException]
        ELSE IF extra.kind = "bad_json"
        THEN [fields |-> first, raised |-> Exc("JSONDecodeError", sExpectingValue)]
        ELSE IF extra.kind = "object"
        THEN [fields |-> first, raised |-> Exc("TypeError", sNoIndex)]
        ELSE IF extra.kind = "empty_object"
        THEN [fields |-> first, raised |-> NoException]
        ELSE AppendFieldDefs(first, extra.defs)

(* lines 258-293: the fields are built and the create call is issued; a
   parse error and any other exception end the handler with their text *)
CreateIssue ==
    /\ pc = "start" /\ CreateTool
    /\ LET built == BuildFields(title, additional_fields)
       IN  /\ initial_fields' = built.fields
           /\ IF built.raised = NoException
              THEN /\ events' = Append(events,
                        [e |-> "call", index |-> 1,
                         request |-> HttpRequest(
                             [name |-> "create_list_item", list_id |-> "F1",
                              fields |-> built.fields,
                              parent_item_id |-> parent_item_id])])
                   /\ pc' = "await"
                   /\ UNCHANGED <<result, raised>>
              ELSE /\ result' = IF built.raised.type = "JSONDecodeError"
                                THEN "parse_error" ELSE ToolHandlers(built.raised)
                   /\ raised' = built.raised
                   /\ pc' = "done"
                   /\ UNCHANGED events
    /\ UNCHANGED <<tool, fetchVars, filter_column_id, filter_operator, filter_value,
                   filtered_items, items_to_export, codecVars, exportVars, serverVars, getVars, webVars,
                   client_call, http_log, returned,
                   title, additional_fields, parent_item_id, fields_added, items_data,
                   rate_limit_delay, item_index, successful, failed, results, created>>

(* lines 293-309: the create call completes; the success text with
   len(fields), or the text of the error *)
CreateComplete ==
    /\ pc = "await" /\ CreateTool
    /\ \E outcome \in CreateOutcomes :
          LET res == MakeRequest(outcome)
              call == events[Len(events)]
              got == IF res.raised = NoException THEN ItemId(res.returned).raised
                     ELSE res.raised
          IN  /\ events' = Append(events, [e |-> "done", index |-> 1,
                                           outcome |-> outcome])
              /\ created' = IF Accepted(outcome)
                            THEN Append(created, call.request.json) ELSE created
              /\ raised' = got
              /\ IF got = NoException
                 THEN result' = "created" /\ fields_added' = Len(initial_fields)
                 ELSE /\ result' = ToolHandlers(got)
                      /\ UNCHANGED fields_added
    /\ pc' = "done"
    /\ UNCHANGED <<tool, fetchVars, filter_column_id, filter_operator, filter_value,
                   filtered_items, items_to_export, codecVars, exportVars, serverVars, getVars, webVars,
                   client_call, http_log, returned,
                   title, additional_fields, parent_item_id, initial_fields,
                   items_data, rate_limit_delay, item_index, successful, failed,
                   results>>

NextCreate == CreateIssue \/ CreateComplete

SpecCreate == InitCreate /\ [][NextCreate]_vars

-----------------------------------------------------------------------------
(* Properties of the single creation (checked under SpecCreate) *)

(* the create request has been issued for an array of field definitions *)
CreateIssued ==
    /\ CreateTool /\ additional_fields.kind = "array"
    /\ events # <<>> /\ events[1].e = "call"

Submitted == events[1].request.json.initial_fields

(* a field holds a value: as it is, as a one-element list, or as its truth *)
Carries(field, val) ==
    \E slot \in DOMAIN field \ {"column_id"} :
        \/ field[slot] = val
        \/ field[slot] = PyList(<<val>>)
        \/ field[slot] = PyBool(Truthy(val))

(* C18: for every additional field definition of one of the eight types
   text, date, user, select, checkbox, number, email and phone the submitted
   field list holds a field of that column that carries the value. *)
C18_AllEightTypesEncoded ==
    CreateIssued =>
        \A k \in 1..Len(additional_fields.defs) :
            LET field_def == additional_fields.defs[k]
            IN  field_def["type"] \in FieldTypes =>
                    \E j \in 2..Len(Submitted) :
                        /\ Submitted[j]["column_id"] = field_def["column_id"]
                        /\ Carries(Submitted[j], field_def["value"])

SupportedTypes == {"text", "date", "user", "select", "checkbox"}

DefsComplete ==
    \A k \in 1..Len(additional_fields.defs) :
        {"column_id", "type", "value"} \subseteq DOMAIN additional_fields.defs[k]

(* the definitions of a type create_list_item has a branch for, in input order *)
SupportedDefs ==
    SelectSeq(additional_fields.defs, LAMBDA d : d["type"] \in SupportedTypes)

HasUnknownType ==
    \E k \in 1..Len(additional_fields.defs) :
        additional_fields.defs[k]["type"] \notin FieldTypes

(* C19: a field definition of an unknown type is dropped without an error:
   the create request is still issued, with the title field followed by the
   fields of the supported definitions in input order; when the store
   accepts it the handler returns success, and the field count it reports
   leaves the dropped definition out. *)
C19_UnknownTypeDropped ==
    ( /\ CreateTool /\ additional_fields.kind = "array" /\ pc # "start"
      /\ DefsComplete /\ HasUnknownType )
    => /\ CreateIssued
       /\ Len(Submitted) = 1 + Len(SupportedDefs)
       /\ Submitted[1] = create_text_field(TitleColumn, title)
       /\ \A k \in 1..Len(SupportedDefs) :
             <<Submitted[1 + k]>> = EncodeFieldDef(SupportedDefs[k]["column_id"],
                                                   SupportedDefs[k]["type"],
                                                   SupportedDefs[k]["value"])
       /\ (pc = "done" /\ raised = NoException) =>
             result = "created" /\ fields_added = 1 + Len(SupportedDefs)
       /\ (pc = "done" /\ Len(events) = 2 /\ Accepted(events[2].outcome)
              /\ ItemId(MakeRequest(events[2].outcome).returned).raised = NoException)
             => result = "created"

(* a text definition and one of type priority: two fields are reported *)
C19_Witness ==
    /\ CreateTool /\ pc = "done" /\ result = "created"
    /\ additional_fields.kind = "array" /\ Len(additional_fields.defs) = 2
    /\ additional_fields.defs[1]["type"] = "priority"
    /\ additional_fields.defs[2] = FieldDef("C1", "text", PyStr(sHigh))
    /\ fields_added = 2
    /\ Submitted = <<create_text_field(TitleColumn, title),
                     create_text_field("C1", PyStr(sHigh))>>

-----------------------------------------------------------------------------
(* The server: the five tools invoked one after the other *)

Tools == {"create_list_item", "create_multiple_list_items", "get_list_items",
          "filter_list_items", "export_list_items"}

(* SLACK_BOT_TOKEN: not set, set to the empty string, or one of two tokens *)
EnvTokens == {PyNone, PyStr(<<>>), PyStr(sToken), PyStr(sToken2)}

(* mutant: the limit is capped from above only *)
ClampLimit_UpperOnly(l) == Min(l, PageLimit)

(* limit = min(max(1, limit), 100) (line 430) *)
ClampLimit(l) == Min(Max(1, l), PageLimit)

GetLimits == {-5, 0, 1, 2, 50, 100, 250}

SmallStores == 0..MaxStore

GotClient == get_slack_client(slack_client, env_token)

InitTools ==
    /\ IdleFetch /\ IdleFilter /\ IdleCodec /\ IdleExport /\ IdleClient
    /\ IdleCreate /\ IdleGet /\ IdleWeb
    /\ pc = "idle" /\ tool = "none"
    /\ slack_client = NoClient /\ env_token \in EnvTokens
    /\ failed_before = FALSE /\ clients_built = 0

(* the environment is changed between two invocations *)
SetToken ==
    /\ pc = "idle"
    /\ env_token' \in EnvTokens \ {env_token}
    /\ UNCHANGED <<pc, tool, fetchVars, filterVars, codecVars, exportVars, clientVars,
                   createVars, getVars, webVars, slack_client, failed_before, clients_built>>

(* a tool is invoked and get_slack_client, the first statement of every
   handler, raises: the handler returns the error text whatever its
   arguments are *)
InvokeNoClient ==
    /\ pc = "idle"
    /\ GotClient.raised # NoException
    /\ tool' \in Tools
    /\ additional_fields' \in IF tool' = "create_list_item" THEN CreateInputs
                               ELSE {NoInput}
    /\ items_data' \in IF tool' = "create_multiple_list_items" THEN BulkInputs
                        ELSE {NoInput}
    /\ raised' = GotClient.raised
    /\ result' = ToolHandlers(raised')
    /\ pc' = "done"
    /\ UNCHANGED <<fetchVars, filter_column_id, filter_operator, filter_value,
                   filtered_items, items_to_export, codecVars, exportVars,
                   client_call, http_log, returned, title, parent_item_id,
                   initial_fields, fields_added, rate_limit_delay, item_index,
                   successful, failed, results, events, created, serverVars,
                   getVars, webVars>>

(* create_list_item is invoked (lines 232-259) *)
InvokeCreate ==
    /\ pc = "idle"
    /\ GotClient.raised = NoException
    /\ slack_client' = GotClient.client
    /\ clients_built' = clients_built + (IF GotClient.built THEN 1 ELSE 0)
    /\ tool' = "create_list_item" /\ pc' = "start"
    /\ title' = PyStr(sHigh)
    /\ additional_fields' \in CreateInputs
    /\ parent_item_id' \in {PyNone, PyStr(sRec9)}
    /\ UNCHANGED <<fetchVars, filterVars, codecVars, exportVars, clientVars,
                   initial_fields, fields_added, items_data, rate_limit_delay,
                   item_index, successful, failed, results, events, created,
                   env_token, failed_before, getVars, webVars>>

(* create_multiple_list_items is invoked (lines 311-335) *)
InvokeBulk ==
    /\ pc = "idle"
    /\ GotClient.raised = NoException
    /\ slack_client' = GotClient.client
    /\ clients_built' = clients_built + (IF GotClient.built THEN 1 ELSE 0)
    /\ tool' = "create_multiple_list_items" /\ pc' = "start"
    /\ items_data' \in BulkInputs
    /\ rate_limit_delay' \in RateLimitDelays
    /\ UNCHANGED <<fetchVars, filterVars, codecVars, exportVars, clientVars,
                   title, additional_fields, parent_item_id, initial_fields,
                   fields_added, item_index, successful, failed, results, events,
                   created, env_token, failed_before, getVars, webVars>>

(* filter_list_items is invoked (lines 476-510) *)
InvokeFilter ==
    /\ pc = "idle"
    /\ GotClient.raised = NoException
    /\ slack_client' = GotClient.client
    /\ clients_built' = clients_built + (IF GotClient.built THEN 1 ELSE 0)
    /\ tool' = "filter_list_items" /\ pc' = "fetch"
    /\ store' \in SmallStores
    /\ max_items' \in MaxItemsArgs
    /\ UNCHANGED <<all_items, cursor, requests, responses, filterVars, codecVars,
                   exportVars, clientVars, createVars, env_token, failed_before,
                   getVars, webVars>>

(* export_list_items is invoked (lines 597-624) *)
InvokeExport ==
    /\ pc = "idle"
    /\ GotClient.raised = NoException
    /\ slack_client' = GotClient.client
    /\ clients_built' = clients_built + (IF GotClient.built THEN 1 ELSE 0)
    /\ tool' = "export_list_items" /\ pc' = "fetch"
    /\ store' \in SmallStores
    /\ export_format' \in ExportFormats
    /\ UNCHANGED <<max_items, all_items, cursor, requests, responses, filterVars,
                   codecVars, export_data, all_columns, rows, csv_lines, csv_output,
                   clientVars, createVars, env_token, failed_before, getVars, webVars>>

(* get_list_items is invoked (lines 406-427) *)
InvokeGetItems ==
    /\ pc = "idle"
    /\ GotClient.raised = NoException
    /\ slack_client' = GotClient.client
    /\ clients_built' = clients_built + (IF GotClient.built THEN 1 ELSE 0)
    /\ tool' = "get_list_items" /\ pc' = "fetch"
    /\ store' \in SmallStores
    /\ limit_arg' \in GetLimits
    /\ UNCHANGED <<max_items, all_items, cursor, requests, responses, filterVars,
                   codecVars, exportVars, clientVars, createVars, env_token,
                   failed_before, has_more, webVars>>

(* get_list_items, lines 430-468: the page is fetched and listed *)
GetItems ==
    /\ pc = "fetch" /\ tool = "get_list_items"
    /\ LET req == ClientRequest(ClampLimit(limit_arg), PyNone)
       IN  \E data \in StoreResponses(req) :
              /\ requests' = Append(requests, req)
              /\ responses' = Append(responses, data)
              /\ all_items' = data.items
              /\ cursor' = data.next_cursor
              /\ IF data.items = <<>>
                 THEN result' = "no_items" /\ UNCHANGED has_more
                 ELSE result' = "listed" /\ has_more' = (data.next_cursor # PyNone)
    /\ pc' = "done"
    /\ UNCHANGED <<tool, store, max_items, filter_column_id, filter_operator,
                   filter_value, filtered_items, items_to_export, codecVars,
                   exportVars, clientVars, createVars, serverVars, limit_arg, webVars>>

(* get_list_items: the page request fails (lines 470-474) *)
GetItemsFail ==
    /\ pc = "fetch" /\ tool = "get_list_items"
    /\ \E outcome \in FetchFailures :
          /\ requests' = Append(requests, ClientRequest(ClampLimit(limit_arg), PyNone))
          /\ raised' = MakeRequest(outcome).raised
    /\ result' = ToolHandlers(raised')
    /\ pc' = "done"
    /\ UNCHANGED <<tool, store, max_items, all_items, cursor, responses,
                   filter_column_id, filter_operator, filter_value, filtered_items,
                   items_to_export, codecVars, exportVars, client_call, http_log,
                   returned, createVars, serverVars, getVars, webVars>>

(* the texts a handler returns for a failure *)
FailureTexts == {"slack_error", "unexpected_error", "parse_error", "not_array",
                 "unsupported"}

(* the handler returns its text: its locals are gone, the module's client
   instance stays *)
HandlerReturns ==
    /\ pc = "done"
    /\ pc' = "idle" /\ tool' = "none"
    /\ failed_before' = (failed_before \/ result \in FailureTexts \/ failed > 0)
    /\ store' = 0 /\ max_items' = 0 /\ all_items' = <<>> /\ cursor' = PyNone
    /\ requests' = <<>> /\ responses' = <<>>
    /\ filtered_items' = <<>> /\ items_to_export' = <<>> /\ result' = "running"
    /\ export_format' = <<>> /\ export_data' = <<>> /\ all_columns' = <<>>
    /\ rows' = <<>> /\ csv_lines' = <<>> /\ csv_output' = <<>>
    /\ raised' = NoException
    /\ title' = PyNone /\ additional_fields' = NoInput /\ parent_item_id' = PyNone
    /\ initial_fields' = <<>> /\ fields_added' = 0
    /\ items_data' = NoInput /\ rate_limit_delay' = 0 /\ item_index' = 0
    /\ successful' = 0 /\ failed' = 0 /\ results' = <<>>
    /\ events' = <<>> /\ created' = <<>>
    /\ limit_arg' = 0 /\ has_more' = FALSE
    /\ UNCHANGED <<filter_column_id, filter_operator, filter_value, codecVars,
                   client_call, http_log, returned, slack_client, env_token,
                   clients_built, webVars>>

NextTools ==
    \/ SetToken \/ InvokeNoClient \/ HandlerReturns
    \/ InvokeCreate \/ CreateIssue \/ CreateComplete
    \/ InvokeBulk \/ BulkStart \/ BulkIssue \/ BulkComplete \/ BulkPause \/ BulkFinish
    \/ InvokeGetItems \/ GetItems \/ GetItemsFail
    \/ InvokeFilter \/ FilterFetchDone \/ FilterFetchPage \/ FilterFetchFail \/ FilterApply
    \/ InvokeExport \/ GetAllPage \/ GetAllFail \/ ExportApply \/ ExportRender

SpecTools == InitTools /\ [][NextTools]_vars

-----------------------------------------------------------------------------
(* Properties of the server (checked under SpecTools) *)

(* an exception has reached the handlers of the running tool *)
ToolRaised == tool \in Tools /\ raised # NoException

(* every state between two invocations is the same but for the client
   instance, the environment and the record of earlier failures *)
IdleIsClean ==
    pc = "idle" =>
        /\ IdleFetch /\ IdleFilter /\ IdleCodec /\ IdleExport /\ IdleClient
        /\ IdleCreate /\ IdleGet
        /\ tool = "none"

(* C20: no invocation of a tool lets an exception out: a failure of the
   store and a malformed input end the invocation with a returned failure
   text (a failed item of a bulk creation with its line in the summary), and
   the invocation leaves nothing behind that a later invocation would see. *)
C20_FailuresAreReturned ==
    /\ result # "propagated"
    /\ pc = "done" => result # "running"
    /\ ToolRaised => pc = "done" /\ result \in FailureTexts
    /\ ( /\ tool = "create_multiple_list_items" /\ pc = "done"
         /\ items_data.kind = "array" /\ slack_client # NoClient ) =>
           /\ result = "summary"
           /\ \A k \in 1..NItems : ~ItemSucceeds(k) => ~results[k].ok
    /\ ( /\ tool \in {"create_list_item", "create_multiple_list_items"}
         /\ pc = "done"
         /\ IF tool = "create_list_item" THEN additional_fields.kind = "bad_json"
            ELSE items_data.kind \in {"bad_json", "object"} )
       => result \in FailureTexts
    /\ IdleIsClean
    /\ slack_client \in {NoClient} \cup {SlackListsClient(t.v) : t \in {e \in EnvTokens : Truthy(e)}}

(* a creation succeeds after an earlier invocation has failed *)
C20_Witness ==
    /\ failed_before
    /\ tool = "create_list_item" /\ pc = "done" /\ result = "created"

-----------------------------------------------------------------------------
(* Properties of the parsing of structured inputs (checked under SpecTools) *)

(* the running tool was given a string that json.loads does not accept;
   the empty string is one for either tool *)
UnparseableInput ==
    \/ tool = "create_list_item" /\ additional_fields.kind \in {"bad_json", "empty"}
    \/ tool = "create_multiple_list_items" /\ items_data.kind = "bad_json"

(* the running tool reached json.loads with a string it does not accept *)
ParseAttempted ==
    /\ slack_client # NoClient
    /\ \/ tool = "create_list_item" /\ additional_fields.kind = "bad_json"
       \/ tool = "create_multiple_list_items" /\ items_data.kind = "bad_json"

ParseErrorReturned ==
    /\ result = "parse_error"
    /\ raised = Exc("JSONDecodeError", sExpectingValue)

(* C21 as stated: whenever a creation tool is invoked with a string that is
   not parseable JSON, it returns the JSON-parse error text with the
   parser's message and no request is issued. *)
C21_ParseErrorWheneverInvoked ==
    (UnparseableInput /\ tool \in Tools) =>
        /\ events = <<>>
        /\ pc = "done" => ParseErrorReturned

(* C21: once the client handle is there, a non-empty additional_fields and
   any items_data that json.loads rejects make the tool return the
   JSON-parse error text with the parser's message, and no request is issued
   at any point of the invocation. *)
C21_ParseErrorReturned ==
    ParseAttempted =>
        /\ events = <<>> /\ created = <<>> /\ requests = <<>>
        /\ pc \in {"start", "done"}
        /\ pc = "done" => ParseErrorReturned

(* a bulk creation has returned the parse error *)
C21_Witness ==
    /\ tool = "create_multiple_list_items" /\ ParseAttempted
    /\ pc = "done" /\ ParseErrorReturned

(* a single creation has returned the parse error *)
C21_WitnessSingle ==
    /\ tool = "create_list_item" /\ ParseAttempted
    /\ pc = "done" /\ ParseErrorReturned

-----------------------------------------------------------------------------
(* Properties of the client handle (checked under SpecTools) *)

sTokenName == <<"S","L","A","C","K","_","B","O","T","_","T","O","K","E","N">>

(* a handler starts in this step: get_slack_client is called *)
HandlerEntered == pc = "idle" /\ pc' # "idle"

(* no instance before the first construction, one instance ever after *)
BuiltOnce ==
    /\ clients_built \in {0, 1}
    /\ clients_built = 0 <=> slack_client = NoClient

(* a call of get_slack_client: lazily built from the token of the moment,
   the same instance ever after, SlackListsError without token and client *)
GetClientStep ==
    /\ slack_client # NoClient => slack_client' = slack_client
    /\ clients_built' # clients_built =>
          /\ HandlerEntered /\ slack_client = NoClient /\ Truthy(env_token)
          /\ slack_client' = SlackListsClient(env_token.v)
          /\ slack_client'.token = env_token.v
    /\ (HandlerEntered /\ slack_client = NoClient /\ Truthy(env_token)) =>
          /\ slack_client' = SlackListsClient(env_token.v)
          /\ clients_built' = 1
          /\ raised' = NoException
    /\ (HandlerEntered /\ slack_client = NoClient /\ ~Truthy(env_token)) =>
          /\ slack_client' = NoClient
          /\ raised'.type = "SlackListsError"
          /\ IsSubstring(sTokenName, raised'.msg)
          /\ result' = "slack_error" /\ pc' = "done"

(* C22: the client handle is built lazily and once: the first call of
   get_slack_client with a token set builds a client holding that token,
   every later call returns that instance and builds no other, whatever the
   environment holds by then; with no token and no client the call raises
   SlackListsError naming SLACK_BOT_TOKEN. *)
C22_ClientBuiltOnce == []BuiltOnce /\ [][GetClientStep]_vars

(* a tool runs with the client of the first token while the environment
   holds the second *)
C22_Witness ==
    /\ slack_client = SlackListsClient(sToken) /\ env_token = PyStr(sToken2)
    /\ clients_built = 1 /\ tool \in Tools /\ pc = "done" /\ result = "created"
    /\ failed_before

-----------------------------------------------------------------------------
(* Properties of the page limits (checked under SpecTools) *)

(* the records the pages before the i-th request have brought *)
FetchedBefore(i) == Len(Concat(SubSeq(responses, 1, i - 1)))

(* C23: every list-items request of a tool carries a limit within 1..100:
   get_list_items sends its limit argument clamped into that range, every
   page request of filter_list_items asks for min(100, remaining) with
   remaining >= 1, and the listing of export_list_items asks for 100. *)
C23_LimitWithinRange ==
    \A i \in 1..Len(requests) :
        /\ requests[i].limit \in 1..PageLimit
        /\ tool = "get_list_items" =>
              /\ i = 1
              /\ limit_arg \in 1..PageLimit => requests[i].limit = limit_arg
              /\ limit_arg < 1 => requests[i].limit = 1
              /\ limit_arg > PageLimit => requests[i].limit = PageLimit
        /\ tool = "filter_list_items" =>
              /\ max_items - FetchedBefore(i) >= 1
              /\ requests[i].limit = Min(PageLimit, max_items - FetchedBefore(i))
        /\ tool = "export_list_items" => requests[i].limit = PageLimit

(* a negative limit argument has gone out as 1 *)
C23_Witness ==
    /\ tool = "get_list_items" /\ pc = "done" /\ limit_arg < 0
    /\ Len(requests) = 1 /\ requests[1].limit = 1

(* the second page of a bounded fetch asks for what is left of max_items *)
C23_WitnessFilter ==
    /\ tool = "filter_list_items" /\ max_items = MaxSmallItems
    /\ Len(requests) = 2 /\ requests[1].limit = MaxSmallItems
    /\ requests[2].limit = 1

-----------------------------------------------------------------------------
(* The webhook: notion_webhook (main.py) *)

(* COLUMNS, STATUS_MAPPING and PRIORITY_MAPPING (main.py, lines 31-51); the
   first character of a priority key stands for its coloured circle *)
COLUMNS ==
    [title |-> "Col0ABF27K66T", description |-> "Col0ABQ4083FV",
     status |-> "Col0ABUDW1YH4", priority |-> "Col0AC9D3FC57", checkbox |-> "Col00"]

sNotStarted == <<"N","o","t"," ","s","t","a","r","t","e","d">>
sInProgress == <<"I","n"," ","p","r","o","g","r","e","s","s">>
sDone == <<"D","o","n","e">>
sBlocked == <<"B","l","o","c","k","e","d">>
sP1Urgent == <<"*"," ","P","1"," ","-"," ","U","r","g","e","n","t">>
sP2High == <<"*"," ","P","2"," ","-"," ","H","i","g","h">>
sP3Normal == <<"*"," ","P","3"," ","-"," ","N","o","r","m","a","l">>
sNoUpdate == <<"'","S","l","a","c","k","L","i","s","t","s","C","l","i","e","n","t","'"," ","o","b","j","e","c","t"," ","h","a","s"," ","n","o"," ","a","t","t","r","i","b","u","t","e"," ","'","u","p","d","a","t","e","_","l","i","s","t","_","i","t","e","m","'">>

STATUS_MAPPING ==
    (sNotStarted :> <<"O","p","t","7","M","N","H","B","1","9","N">>) @@ (sInProgress :> <<"O","p","t","X","B","P","N","O","Y","K","C">>)
    @@ (sDone :> <<"O","p","t","E","Y","5","M","0","0","J","3">>)

PRIORITY_MAPPING == (sP1Urgent :> 1) @@ (sP2High :> 2) @@ (sP3Normal :> 3)

DEFAULT_LIST_ID == "F0AC03K1EBE"

(* the methods SlackListsClient defines (slack_lists_server.py, lines 62-136) *)
ClientMethods ==
    {"__init__", "_make_request", "create_list_item", "get_list_items",
     "get_all_list_items"}

(* bool(x) for a dict as well *)
TruthyAny(x) == IF IsObject(x) THEN DOMAIN x # {} ELSE Truthy(x)

(* a or b *)
PyOr(a, b) == IF TruthyAny(a) THEN a ELSE b

(* key.lower() of the property names the webhook asks for *)
KeyLower(key) ==
    CASE key = "Request" -> "request"
      [] key = "Title" -> "title"
      [] key = "Name" -> "name"
      [] key = "Status" -> "status"
      [] key = "Details" -> "details"
      [] key = "Priority" -> "priority"
      [] OTHER -> key

(* str.strip() *)
Whitespace == {" ", "\t", "\n", "\r"}

strip(s) ==
    LET kept == {i \in 1..Len(s) : s[i] \notin Whitespace}
    IN  IF kept = {} THEN <<>>
        ELSE SubSeq(s, CHOOSE i \in kept : \A j \in kept : i <= j,
                       CHOOSE i \in kept : \A j \in kept : i >= j)

(* x.get("plain_text") or x.get("text", {}).get("content") (lines 101, 122) *)
PlainText(x) ==
    PyOr(Get(x, "plain_text"),
         IF Has(x, "text") THEN Get(x["text"], "content") ELSE PyNone)

(* extract_notion_property (lines 77-138) *)
extract_notion_property(data, key) ==
    LET prop == PyOr(Get(data, key), Get(data, KeyLower(key)))
        prop_type == IF IsObject(prop) /\ Has(prop, "type") THEN prop["type"] ELSE "none"
        inner == IF IsObject(prop) /\ Has(prop, prop_type) THEN prop[prop_type] ELSE PyNone
    IN  IF ~TruthyAny(prop) THEN PyNone
        ELSE IF ~IsObject(prop) THEN prop
        ELSE IF prop_type \in {"title", "rich_text"}
        THEN IF TruthyAny(inner) THEN PlainText(inner.v[1]) ELSE PyNone
        ELSE IF prop_type \in {"select", "status"}
        THEN IF TruthyAny(inner) THEN Get(inner, "name") ELSE PyNone
        ELSE IF prop_type = "multi_select"
        THEN IF inner = PyNone THEN PyList(<<>>)
             ELSE PyList(SelectSeq([i \in 1..Len(inner.v) |-> Get(inner.v[i], "name")],
                                   LAMBDA n : Truthy(n)))
        ELSE IF prop_type = "date"
        THEN IF TruthyAny(inner) THEN Get(inner, "start") ELSE PyNone
        ELSE PyOr(PyOr(Get(prop, "name"), Get(prop, "value")), Get(prop, "plain_text"))

(* get_notion_properties (lines 141-149) *)
get_notion_properties(body) ==
    LET data == IF Has(body, "data") THEN body["data"] ELSE body
    IN  IF Has(data, "properties") THEN data["properties"]
        ELSE IF Has(body, "properties") THEN body["properties"]
        ELSE data

(* key in mapping, for a value that is a string *)
InMapping(x, mapping) == x.t = "str" /\ x.v \in DOMAIN mapping

(* build_cells_from_notion (lines 152-188) *)
build_cells_from_notion(body) ==
    LET props == get_notion_properties(body)
        status == extract_notion_property(props, "Status")
        details == extract_notion_property(props, "Details")
        priority == extract_notion_property(props, "Priority")
    IN  (IF Truthy(status) /\ InMapping(status, STATUS_MAPPING)
         THEN <<[column_id |-> COLUMNS.status,
                 select |-> PyList(<<PyStr(STATUS_MAPPING[status.v])>>)]>>
         ELSE <<>>)
        \o (IF Truthy(details)
            THEN <<[column_id |-> COLUMNS.description,
                    rich_text |-> PyList(<<PyStr(str(details))>>)]>>
            ELSE <<>>)
        \o (IF Truthy(priority) /\ InMapping(priority, PRIORITY_MAPPING)
            THEN <<[column_id |-> COLUMNS.priority,
                    number |-> PyList(<<PyInt(PRIORITY_MAPPING[priority.v])>>)]>>
            ELSE <<>>)

(* the title the webhook takes from the payload (lines 204-213) *)
WebhookTitle(body) ==
    LET props == get_notion_properties(body)
    IN  PyOr(extract_notion_property(props, "Request"),
        PyOr(extract_notion_property(props, "Title"),
        PyOr(extract_notion_property(props, "Name"),
        PyOr(extract_notion_property(props, "title"),
             extract_notion_property(props, "name")))))

(* the fields of a new item (lines 250-260) *)
WebhookFields(body, ttl) ==
    LET props == get_notion_properties(body)
        status == extract_notion_property(props, "Status")
        details == extract_notion_property(props, "Details")
    IN  <<create_text_field(COLUMNS.title, ttl)>>
        \o (IF Truthy(status) /\ InMapping(status, STATUS_MAPPING)
            THEN <<create_select_field(COLUMNS.status,
                                       PyList(<<PyStr(STATUS_MAPPING[status.v])>>))>>
            ELSE <<>>)
        \o (IF Truthy(details)
            THEN <<create_text_field(COLUMNS.description, PyStr(str(details)))>>
            ELSE <<>>)

(* find_item_by_title, lines 62-72: the text of a title field, and whether
   it is the title looked for *)
ItemTitle(field) ==
    IF Has(field, "text") THEN field["text"]
    ELSE IF Has(field, "value") THEN field["value"]
    ELSE PyNone

TitleMatches(field, ttl) ==
    /\ Has(field, "column_id") /\ field["column_id"] = COLUMNS.title
    /\ Truthy(ItemTitle(field))
    /\ lower(strip(ItemTitle(field).v)) = lower(strip(ttl.v))

ItemMatches(it, ttl) ==
    \E k \in 1..Len(it.fields) : TitleMatches(it.fields[k], ttl)

(* find_item_by_title (lines 54-74) over the listed items: the first item
   with a matching title field, or None *)
find_item_by_title(items, ttl) ==
    IF \E i \in 1..Len(items) : ItemMatches(items[i], ttl)
    THEN items[CHOOSE i \in 1..Len(items) :
                   /\ ItemMatches(items[i], ttl)
                   /\ \A j \in 1..(i - 1) : ~ItemMatches(items[j], ttl)]
    ELSE PyNone

(* the request bodies: no JSON, or a payload; titles come under Request,
   Title or Name, plain or as a Notion title property, and a payload may map
   to no field change, to one or to two *)
WebPayloads ==
    { [Request |-> PyStr(sHigh)],
      [properties |-> [Title |-> PyStr(<<" ","h","i","g","h"," ">>),
                       Status |-> PyStr(sDone)]],
      [data |-> [properties |->
          [Name |-> [type |-> "title",
                     title |-> PyList(<<[plain_text |-> PyStr(sHigh)]>>)],
           Details |-> PyStr(sLow),
           Priority |-> [type |-> "select", select |-> [name |-> PyStr(sP1Urgent)]]]]],
      [Request |-> PyStr(sLow), Status |-> PyStr(sBlocked)],
      [Status |-> PyStr(sDone)] }

WebBodies ==
    { [kind |-> "bad_json"] } \cup { [kind |-> "object", data |-> b] : b \in WebPayloads }

(* a title field as the store lists it *)
TextField(col, slot, text) ==
    [k \in {"column_id", slot} |-> IF k = "column_id" THEN col ELSE PyStr(text)]

(* the lists the webhook may find at the store: empty; an item titled High;
   one whose title sits under "value" in other case and with blanks; a title
   in another column next to an item titled Low *)
RemoteLists ==
    { <<>>,
      <<MakeItem(1, <<TextField(COLUMNS.title, "text", sHigh)>>)>>,
      <<MakeItem(1, <<TextField(COLUMNS.title, "value", <<" ","H","I","G","H">>)>>)>>,
      <<MakeItem(1, <<TextField(COLUMNS.description, "text", sHigh)>>),
        MakeItem(2, <<TextField(COLUMNS.title, "text", sLow)>>)>> }

(* the store lists a rich text field with its plain text under "text" *)
StoredField(field) ==
    IF Has(field, "rich_text")
    THEN [k \in DOMAIN field \cup {"text"} |->
             IF k = "text" THEN field["rich_text"].v[1] ELSE field[k]]
    ELSE field

StoredItem(id, fs) == MakeItem(id, [k \in 1..Len(fs) |-> StoredField(fs[k])])

(* the pages the store may answer a listing from position pos with: one
   item or all that are left, and a cursor exactly while items are left *)
RemotePages(pos) ==
    LET left == Len(remote_items) - pos
    IN  IF left = 0
        THEN { [items |-> <<>>, next_cursor |-> c] : c \in {PyNone, PyStr(<<>>)} }
        ELSE UNION { { [items |-> SubSeq(remote_items, pos + 1, pos + n),
                        next_cursor |-> c] :
                       c \in IF n < left THEN {Token(pos + n)}
                             ELSE {PyNone, PyStr(<<>>)} } :
                     n \in {1, left} }

(* the position a cursor of the store stands for *)
RemoteStart(cur) ==
    IF ~Truthy(cur) THEN 0
    ELSE CHOOSE pos \in 0..Len(remote_items) : Token(pos) = cur

(* JSONResponse(...) of the handler *)
Answer(code, what, extra) == [status_code |-> code, action |-> what, detail |-> extra]

(* the except clauses of notion_webhook (lines 274-292) *)
WebhookHandlers(exc) ==
    IF exc.type = "JSONDecodeError" THEN Answer(400, "invalid_json", <<>>)
    ELSE IF exc.type = "SlackListsError" THEN Answer(500, "slack_error", exc.msg)
    ELSE Answer(500, "internal_error", exc.msg)

Serving == tool = "notion_webhook" /\ pc = "serve"

InitWebhook ==
    /\ IdleFetch /\ IdleFilter /\ IdleCodec /\ IdleExport /\ IdleClient
    /\ IdleCreate /\ IdleGet
    /\ tool = "notion_webhook" /\ pc = "serve"
    /\ slack_client = NoClient /\ env_token \in {PyNone, PyStr(sToken)}
    /\ failed_before = FALSE /\ clients_built = 0
    /\ webhook = [p \in Requests |-> IdleHook]
    /\ remote_items \in RemoteLists
    /\ store_log = <<>>

(* lines 199-226: the body is read, the title is taken from it, the client
   is got and find_item_by_title begins its listing *)
WebReceive(p) ==
    /\ Serving /\ webhook[p].pc = "idle"
    /\ \E body \in WebBodies :
          LET ttl == WebhookTitle(body.data)
              got == get_slack_client(slack_client, env_token)
          IN  IF body.kind = "bad_json"
              THEN /\ webhook' = [webhook EXCEPT ![p].pc = "done", ![p].body = body,
                          ![p].response =
                              WebhookHandlers(Exc("JSONDecodeError", sExpectingValue))]
                   /\ UNCHANGED <<slack_client, clients_built>>
              ELSE IF ~Truthy(ttl)
              THEN /\ webhook' = [webhook EXCEPT ![p].pc = "done", ![p].body = body,
                          ![p].response = Answer(400, "missing_title", <<>>)]
                   /\ UNCHANGED <<slack_client, clients_built>>
              ELSE IF got.raised # NoException
              THEN /\ webhook' = [webhook EXCEPT ![p].pc = "done", ![p].body = body,
                          ![p].title = ttl,
                          ![p].response = WebhookHandlers(got.raised)]
                   /\ UNCHANGED <<slack_client, clients_built>>
              ELSE /\ webhook' = [webhook EXCEPT ![p].pc = "list", ![p].body = body,
                          ![p].title = ttl]
                   /\ slack_client' = got.client
                   /\ clients_built' = clients_built + (IF got.built THEN 1 ELSE 0)
    /\ UNCHANGED <<pc, tool, fetchVars, filterVars, codecVars, exportVars, clientVars,
                   createVars, getVars, env_token, failed_before, remote_items,
                   store_log>>

(* lines 226-272 after the listing: the item is looked for; an item found is
   updated when the payload maps to cells, else a new item is built and its
   create request goes out *)
Decide(hook, items) ==
    LET found == find_item_by_title(items, hook.title)
        cells == build_cells_from_notion(hook.body.data)
    IN  IF TruthyAny(found)
        THEN IF cells # <<>>
             THEN IF "update_list_item" \in ClientMethods
                  THEN [hook EXCEPT !.pc = "update", !.item = found, !.cells = cells]
                  ELSE [hook EXCEPT !.pc = "done", !.item = found, !.cells = cells,
                            !.response =
                                WebhookHandlers(Exc("AttributeError", sNoUpdate))]
             ELSE [hook EXCEPT !.pc = "done", !.item = found, !.cells = cells,
                       !.response = Answer(200, "updated",
                                           [item_id |-> found.id, fields_updated |-> 0])]
        ELSE [hook EXCEPT !.pc = "create", !.item = found,
                  !.fields = WebhookFields(hook.body.data, hook.title)]

(* get_all_list_items (lines 122-136) called by find_item_by_title: one page
   is asked for and taken in; after the last page the handler goes on to
   its decision *)
WebListPage(p) ==
    /\ Serving /\ webhook[p].pc = "list"
    /\ LET hook == webhook[p]
           req == ClientRequest(PageLimit, hook.cursor)
       IN  /\ store_log' = Append(store_log, [by |-> p, op |-> "list", request |-> req])
           /\ \E data \in RemotePages(RemoteStart(req.cursor)) :
                 LET listed == [hook EXCEPT !.all_items = hook.all_items \o data.items,
                                            !.cursor = data.next_cursor]
                 IN  webhook' = [webhook EXCEPT ![p] =
                         IF GetAllContinues(data.next_cursor, data.items)
                         THEN listed
                         ELSE Decide(listed, listed.all_items)]
    /\ UNCHANGED <<pc, tool, fetchVars, filterVars, codecVars, exportVars, clientVars,
                   createVars, serverVars, getVars, remote_items>>

(* a page request of the listing fails: SlackListsError (lines 279-284) *)
WebListFail(p) ==
    /\ Serving /\ webhook[p].pc = "list"
    /\ \E outcome \in FetchFailures :
          /\ store_log' = Append(store_log,
                 [by |-> p, op |-> "list",
                  request |-> ClientRequest(PageLimit, webhook[p].cursor)])
          /\ webhook' = [webhook EXCEPT ![p].pc = "done",
                 ![p].response = WebhookHandlers(MakeRequest(outcome).raised)]
    /\ UNCHANGED <<pc, tool, fetchVars, filterVars, codecVars, exportVars, clientVars,
                   createVars, serverVars, getVars, remote_items>>

(* lines 262-272: the create request reaches the store and is answered *)
WebCreate(p) ==
    /\ Serving /\ webhook[p].pc = "create"
    /\ \E outcome \in CreateOutcomes :
          LET hook == webhook[p]
              res == MakeRequest(outcome)
              got == IF res.raised = NoException THEN ItemId(res.returned).raised
                     ELSE res.raised
          IN  /\ store_log' = Append(store_log,
                     [by |-> p, op |-> "create",
                      request |-> HttpRequest(
                          [name |-> "create_list_item", list_id |-> DEFAULT_LIST_ID,
                           fields |-> hook.fields, parent_item_id |-> PyNone])])
              /\ remote_items' =
                     IF Accepted(outcome)
                     THEN Append(remote_items,
                                 StoredItem(Len(remote_items) + 1, hook.fields))
                     ELSE remote_items
              /\ webhook' = [webhook EXCEPT ![p].pc = "done",
                     ![p].response =
                         IF got = NoException
                         THEN Answer(200, "created",
                                     [item_id |-> ItemId(res.returned).id])
                         ELSE WebhookHandlers(got)]
    /\ UNCHANGED <<pc, tool, fetchVars, filterVars, codecVars, exportVars, clientVars,
                   createVars, serverVars, getVars>>

NextWebhook ==
    \E p \in Requests : WebReceive(p) \/ WebListPage(p) \/ WebListFail(p) \/ WebCreate(p)

SpecWebhook == InitWebhook /\ [][NextWebhook]_vars

-----------------------------------------------------------------------------
(* Properties of the webhook (checked under SpecWebhook) *)

(* request p has been answered *)
Answered(p) == webhook[p].pc = "done"

(* the requests of a kind the store has received from request p *)
StoreRequests(p, kind) ==
    {k \in 1..Len(store_log) : store_log[k].by = p /\ store_log[k].op = kind}

(* request p has found an item with its title and its payload maps to at
   least one field change *)
FoundWithChanges(p) ==
    /\ Answered(p) /\ TruthyAny(webhook[p].item) /\ webhook[p].cells # <<>>

(* C24: the client offers an update operation and the webhook uses it: when
   the webhook finds an item with the incoming title and the payload maps to
   at least one field change, an update request for the item reaches the
   store and the webhook answers success with action "updated". *)
C24_UpdateSentForExistingItem ==
    \A p \in Requests :
        FoundWithChanges(p) =>
            /\ "update_list_item" \in ClientMethods
            /\ StoreRequests(p, "update") # {}
            /\ webhook[p].response.status_code = 200
            /\ webhook[p].response.action = "updated"

(* an item of the list at the store has the title of request p, compared
   trimmed and without regard to case *)
TitleExists(p) ==
    \E i \in 1..Len(remote_items) : ItemMatches(remote_items[i], webhook[p].title)

(* the step sends the create request of request p to the store *)
CreateSent(p) == StoreRequests(p, "create")' # StoreRequests(p, "create")

(* request p carried a title, its listing came back whole, and it was
   answered without a create request *)
AnsweredWithoutCreate(p) ==
    /\ Answered(p) /\ Truthy(webhook[p].title)
    /\ StoreRequests(p, "list") # {}
    /\ webhook[p].response.action # "slack_error"
    /\ StoreRequests(p, "create") = {}

(* C25: the webhook creates a new item only if none exists: a create request
   of a request with a title reaches the store only while no item of the
   list has that title in its title column, and a request whose listing
   succeeded and that sent no create request found such an item. *)
C25_CreateOnlyIfNoneExists ==
    /\ [][\A p \in Requests : CreateSent(p) => ~TitleExists(p)]_vars
    /\ [](\A p \in Requests : AnsweredWithoutCreate(p) => TitleExists(p))

(* what does hold: a request whose create request follows its last page
   request with no request of another in between sends it only while no
   item has its title, and a request that sent none found one *)
CreateOnlyIfNoneExistsAlone ==
    /\ [][\A p \in Requests :
            (CreateSent(p) /\ \E k \in StoreRequests(p, "list")' :
                                  \A j \in k..Len(store_log)' : store_log'[j].by = p)
                => ~TitleExists(p)]_vars
    /\ [](\A p \in Requests : AnsweredWithoutCreate(p) => TitleExists(p))

(* the items of the list that have the title of request p *)
ItemsTitled(p) ==
    {i \in 1..Len(remote_items) : ItemMatches(remote_items[i], webhook[p].title)}

(* requests p and q carry the same title *)
SameTitle(p, q) ==
    /\ p # q /\ Truthy(webhook[p].title) /\ Truthy(webhook[q].title)
    /\ lower(strip(webhook[p].title.v)) = lower(strip(webhook[q].title.v))

(* C26: whatever the interleaving of two webhook requests with the same
   title for a list without an item of that title, at most one of them
   creates an item: the list never holds two items of that title. *)
C26_NoDuplicateCreate ==
    \A p, q \in Requests :
        SameTitle(p, q) =>
            /\ Cardinality(ItemsTitled(p)) <= 1
            /\ ~( /\ StoreRequests(p, "create") # {} /\ StoreRequests(q, "create") # {}
                  /\ webhook[p].response # NoData /\ webhook[q].response # NoData
                  /\ webhook[p].response.action = "created"
                  /\ webhook[q].response.action = "created" )

-----------------------------------------------------------------------------
(* Properties of the listing tool (checked under SpecTools) *)

(* get_list_items has returned its listing *)
Listed == tool = "get_list_items" /\ pc = "done" /\ result = "listed"

(* C27: get_list_items reports "(more available)" exactly when the next
   cursor of the response would make the pagination loops fetch another
   page, and "(all items)" otherwise; an empty next_cursor is reported as
   "(all items)". *)
C27_MoreExactlyWhenLoopsContinue ==
    Listed =>
        /\ has_more <=> GetAllContinues(responses[1].next_cursor, responses[1].items)
        /\ has_more <=> ~(~Truthy(responses[1].next_cursor) \/ responses[1].items = <<>>)
        /\ responses[1].next_cursor = PyStr(<<>>) => ~has_more

-----------------------------------------------------------------------------
(* Termination of the bounded fetch (checked under SpecFetchLive) *)

(* a step of the bounded fetch loop of filter_list_items *)
FilterFetchStep == FilterFetchDone \/ FilterFetchPage \/ FilterFetchFail

(* filter_list_items over a small list, with small max_items arguments *)
InitFetchLive ==
    /\ Init
    /\ tool = "filter_list_items"
    /\ store \in SmallStores /\ max_items <= MaxSmallItems

NextFetchLive == FilterFetchDone \/ FilterFetchPage \/ FilterFetchFail \/ FilterApply

(* the loop runs on whenever the request it awaits has returned *)
SpecFetchLive == InitFetchLive /\ [][NextFetchLive]_vars /\ WF_vars(FilterFetchStep)

(* filter_list_items is in its fetch loop *)
Fetching == tool = "filter_list_items" /\ pc = "fetch"

(* at most max_items page requests, none for max_items <= 0, and every
   iteration but the last has added a record *)
BoundedRequests ==
    tool = "filter_list_items" =>
        /\ Len(requests) <= Max(max_items, 0)
        /\ max_items <= 0 => requests = <<>>
        /\ \A i \in 1..Len(responses) :
              responses[i].items = <<>> => (i = Len(responses) /\ ~Fetching)
        /\ Fetching => Len(all_items) >= Len(requests)

(* C28: the bounded fetch loop of filter_list_items terminates whenever each
   request returns: it issues at most max_items page requests, every
   iteration adding a record or being the last, and none when
   max_items <= 0. Within the pages explored (max_items <= MaxPages, so that
   no run is cut short) the loop is always left. *)
C28_FetchTerminates ==
    /\ []BoundedRequests
    /\ (Fetching /\ max_items <= MaxPages) ~> ~Fetching

(* three page requests of one record each for max_items = 3 *)
C28_Witness ==
    /\ tool = "filter_list_items" /\ ~Fetching /\ max_items = MaxSmallItems
    /\ Len(requests) = MaxSmallItems /\ Len(responses) = MaxSmallItems
    /\ \A i \in 1..Len(responses) : Len(responses[i].items) = 1

-----------------------------------------------------------------------------
(* Properties of records without the target field (checked under SpecFilter) *)

(* record i has no field for the target column *)
NoFieldAt(i) ==
    \A k \in 1..Len(all_items[i].fields) :
        all_items[i].fields[k]["column_id"] # filter_column_id

(* C29: a record that has no field for the target column (its decoded value
   is null) is matched by equals for no comparison value and by not_equals
   for every comparison value. *)
C29_NullMatchesNoValue ==
    (FilterRan /\ filter_operator \in {"equals", "not_equals"}) =>
        \A i \in 1..Len(all_items) :
            NoFieldAt(i) =>
                /\ DecodedAt(i) = PyNone
                /\ InSeq(all_items[i], Selected) <=> (filter_operator = "not_equals")

-----------------------------------------------------------------------------
(* Properties of the validation of additional_fields (checked under SpecCreate) *)

(* some field definition of the array lacks column_id, type or value *)
LacksKey ==
    /\ additional_fields.kind = "array"
    /\ \E k \in 1..Len(additional_fields.defs) :
          ~({"column_id", "type", "value"} \subseteq DOMAIN additional_fields.defs[k])

(* the parsed JSON is not a list of objects *)
NotAList == additional_fields.kind \in {"object", "empty_object"}

(* the invocation has ended with an error text and without a create request *)
Rejected ==
    /\ pc = "done" /\ result \in FailureTexts
    /\ events = <<>> /\ created = <<>>

(* C30: single-item creation is all-or-nothing with respect to input
   validation: when a field definition lacks column_id, type or value, or
   the parsed JSON is not a list of objects, create_list_item returns an
   error text and issues no create request. *)
C30_AllOrNothing ==
    (CreateTool /\ pc # "start" /\ (LacksKey \/ NotAList)) => Rejected

(* what does hold: a definition that lacks a key, and an object with keys,
   end the invocation before any request *)
MissingKeyRejected ==
    (CreateTool /\ pc # "start" /\ (LacksKey \/ additional_fields.kind = "object"))
        => Rejected

====
